---- MODULE Spec2Model ----
(***************************************************************************)
(* Expense-report server: report submission, the two-stage approval state  *)
(* machine and the approval listing.                                       *)
(*                                                                         *)
(* The durable store is the variable db, one field per table.  A table is  *)
(* a set of rows.  A nullable column holds Null (the empty tuple) or       *)
(* Some(v) (the one-element tuple).                                        *)
(***************************************************************************)
EXTENDS Integers, Sequences, FiniteSets, TLC

VARIABLES
  db,        \* the durable store
  resp,      \* the answer to the last request
  inflight,  \* decision transactions that have read and not yet committed
  prev,      \* history: the store as the last request found it
  raced,     \* history: the last commit was of a transaction that had read before
             \* another decision of the same report and stage committed
  objects,   \* the objects held by the receipt storage provider
  draftStore, \* the Draft Store of the client
  client     \* the client: its draft, the submitting guard and the work in flight

vars == <<db, resp, inflight, prev, raced, objects, draftStore, client>>

----------------------------------------------------------------------------
(* Bounds of the model *)

MaxExpenses == 2
MaxInFlight == 2

ReportIds == {"r1", "r2"}
ExternalIds == {"e1", "e2"}

----------------------------------------------------------------------------
(* Values *)

Null == <<>>
Some(v) == <<v>>

Stages == {"MANAGER", "FINANCE"}
Actions == {"approve", "reject"}
QueryStatuses == {"pending", "approved", "rejected"}
ReportStatuses == {"SUBMITTED", "MANAGER_APPROVED", "FINANCE_APPROVED", "REJECTED"}
ApprovalStatuses == {"PENDING", "APPROVED", "REJECTED"}
AdminRoles == {"MANAGER", "ANALYST", "CFO", "SUPER", "FINANCE"}

(* One admin account per role; the user name is what decidedBy records. *)
Users == {"mia", "ana", "cleo", "sue", "finn"}
RoleOf(u) ==
  CASE u = "mia" -> "MANAGER"
    [] u = "ana" -> "ANALYST"
    [] u = "cleo" -> "CFO"
    [] u = "sue" -> "SUPER"
    [] u = "finn" -> "FINANCE"

BoundedSeq(S, n) == UNION {[1..k -> S] : k \in 0..n}

RECURSIVE TrimStart(_)
TrimStart(s) ==
  IF s = <<>> THEN s
  ELSE IF Head(s) = " " THEN TrimStart(Tail(s)) ELSE s

RECURSIVE TrimEnd(_)
TrimEnd(s) ==
  IF s = <<>> THEN s
  ELSE IF s[Len(s)] = " " THEN TrimEnd(SubSeq(s, 1, Len(s) - 1)) ELSE s

Trim(s) == TrimEnd(TrimStart(s))

LowerChar(c) == IF c = "M" THEN "m" ELSE c
ToLowerCase(s) == [i \in 1..Len(s) |-> LowerChar(s[i])]

----------------------------------------------------------------------------
(* Tables *)

EmptyDb == [reports |-> {}, expenses |-> {}, approvals |-> {}, receipts |-> {}]

ReportRow(d, r) == CHOOSE row \in d.reports : row.reportId = r
HasReport(d, r) == \E row \in d.reports : row.reportId = r
ApprovalRows(d, r) == {row \in d.approvals : row.reportId = r}
HasApproval(d, r, s) == \E row \in d.approvals : row.reportId = r /\ row.stage = s
ApprovalRow(d, r, s) == CHOOSE row \in d.approvals : row.reportId = r /\ row.stage = s
ExpenseRows(d, r) == {row \in d.expenses : row.reportId = r}
ReceiptRows(d, r) == {row \in d.receipts : row.reportId = r}

NewApproval(r, s) ==
  [reportId |-> r, stage |-> s, status |-> "PENDING",
   decidedBy |-> Null, decidedAt |-> Null, note |-> Null]

(* new Date(): the clock is strictly increasing, and only the timestamps of one
   report are ever held against each other, so a reading is the successor of the
   latest timestamp stored for the report. *)
Timestamps(d, r) == {row.decidedAt[1] : row \in {a \in ApprovalRows(d, r) : a.decidedAt # Null}}
Now(d, r) == IF Timestamps(d, r) = {} THEN 1
             ELSE 1 + (CHOOSE t \in Timestamps(d, r) : \A u \in Timestamps(d, r) : u <= t)

(* prisma.$transaction: the steps run in order; an error thrown at step fault
   rolls every earlier write back (fault = 0: no error, the last state commits). *)
TransactionPartial(before, steps, fault) ==
  IF fault = 0 \/ fault > Len(steps) THEN steps[Len(steps)]
  ELSE IF fault = 1 THEN before ELSE steps[fault - 1]

Transaction(before, steps, fault) ==
  IF fault = 0 \/ fault > Len(steps) THEN steps[Len(steps)] ELSE before

Faulted(steps, fault) == fault # 0 /\ fault <= Len(steps)

----------------------------------------------------------------------------
(* Responses: what the last request answered *)

Response(op, code, r, s, q, rs) ==
  [op |-> op, code |-> code, reportId |-> r, stage |-> s, query |-> q, reports |-> rs]

NoResponse == Response("none", 0, "-", "-", "-", {})

----------------------------------------------------------------------------
(* middleware/adminAuth: requireAdmin(adminApprovalRoles) *)

financeRoles == {"CFO", "SUPER", "FINANCE"}
approvalRoles == {"MANAGER", "ANALYST"} \cup financeRoles

(* 0: the request goes on to the handler *)
requireAdmin(user, roles) ==
  IF user = Null THEN 401
  ELSE IF RoleOf(user[1]) \notin roles THEN 403
  ELSE 0

----------------------------------------------------------------------------
(* routes/adminApprovals.ts *)

NoteLimit == 1000

stageRoleMapManagerListOnly(stage) ==
  CASE stage \in Stages -> {"MANAGER", "ANALYST", "CFO", "SUPER"}
    [] OTHER -> {}

stageRoleMap(stage) ==
  CASE stage = "MANAGER" -> {"MANAGER", "ANALYST", "CFO", "SUPER"}
    [] stage = "FINANCE" -> {"CFO", "SUPER", "FINANCE"}
    [] OTHER -> {}

canActOnStage(role, stage) == role \in stageRoleMap(stage)

(* decisionSchema.safeParse: the note is trimmed before its length is checked *)
decisionSchemaOk(req) ==
  /\ req.stage \in Stages
  /\ req.action \in Actions
  /\ req.note # Null => Len(Trim(req.note[1])) <= NoteLimit

(* const note = parsed.data.note && parsed.data.note.length > 0 ? note : undefined;
   stored as note ?? null *)
NormalizedNote(req) ==
  IF req.note = Null THEN Null
  ELSE IF Len(Trim(req.note[1])) > 0 THEN Some(Trim(req.note[1])) ELSE Null

nextApprovalStatusAlwaysApproved(action) == "APPROVED"

nextApprovalStatus(action) == IF action = "approve" THEN "APPROVED" ELSE "REJECTED"

nextReportStatusSwapped(stage, action) ==
  IF action # "approve" THEN "REJECTED"
  ELSE IF stage = "MANAGER" THEN "FINANCE_APPROVED" ELSE "MANAGER_APPROVED"

nextReportStatus(stage, action) ==
  IF action # "approve" THEN "REJECTED"
  ELSE IF stage = "MANAGER" THEN "MANAGER_APPROVED" ELSE "FINANCE_APPROVED"

(* tx.reportApproval.update({ where: { reportId_stage }, data }) *)
UpdateApproval(d, r, s, status, by, at, note) ==
  [d EXCEPT !.approvals =
     {IF row.reportId = r /\ row.stage = s
        THEN [row EXCEPT !.status = status, !.decidedBy = by,
                         !.decidedAt = at, !.note = note]
        ELSE row : row \in d.approvals}]

(* tx.report.update({ where: { reportId }, data: { status } }) *)
UpdateReportStatus(d, r, status) ==
  [d EXCEPT !.reports =
     {IF row.reportId = r THEN [row EXCEPT !.status = status] ELSE row
        : row \in d.reports}]

DecisionPreconditionNoPendingCheck(d, req) ==
  IF ~HasApproval(d, req.reportId, req.stage) \/ ~HasReport(d, req.reportId) THEN 404
  ELSE IF req.stage = "FINANCE"
          /\ (~HasApproval(d, req.reportId, "MANAGER")
              \/ ApprovalRow(d, req.reportId, "MANAGER").status # "APPROVED") THEN 409
  ELSE 0

DecisionPreconditionApprovedOnly(d, req) ==
  IF ~HasApproval(d, req.reportId, req.stage) \/ ~HasReport(d, req.reportId) THEN 404
  ELSE IF ApprovalRow(d, req.reportId, req.stage).status = "APPROVED" THEN 409
  ELSE IF req.stage = "FINANCE"
          /\ (~HasApproval(d, req.reportId, "MANAGER")
              \/ ApprovalRow(d, req.reportId, "MANAGER").status # "APPROVED") THEN 409
  ELSE 0

DecisionPreconditionNoManagerCheck(d, req) ==
  IF ~HasApproval(d, req.reportId, req.stage) \/ ~HasReport(d, req.reportId) THEN 404
  ELSE IF ApprovalRow(d, req.reportId, req.stage).status # "PENDING" THEN 409
  ELSE 0

(* The checks of the decision handler up to the first write.
   0: every precondition passed. *)
DecisionPrecondition(d, req) ==
  IF ~HasApproval(d, req.reportId, req.stage) \/ ~HasReport(d, req.reportId) THEN 404
  ELSE IF ApprovalRow(d, req.reportId, req.stage).status # "PENDING" THEN 409
  ELSE IF req.stage = "FINANCE"
          /\ (~HasApproval(d, req.reportId, "MANAGER")
              \/ ApprovalRow(d, req.reportId, "MANAGER").status # "APPROVED") THEN 409
  ELSE 0

DecisionCheck(d, req) ==
  IF requireAdmin(req.user, approvalRoles) # 0 THEN requireAdmin(req.user, approvalRoles)
  ELSE IF ~decisionSchemaOk(req) THEN 400
  ELSE IF ~canActOnStage(RoleOf(req.user[1]), req.stage) THEN 403
  ELSE DecisionPrecondition(d, req)

DecisionStepsNoFinanceReset(d, req, now) ==
  LET d1 == UpdateApproval(d, req.reportId, req.stage,
                           nextApprovalStatus(req.action), Some(req.user[1]),
                           Some(now), NormalizedNote(req))
      d3 == UpdateReportStatus(d1, req.reportId, nextReportStatus(req.stage, req.action))
  IN IF req.stage = "MANAGER" THEN <<d1, d1, d3, d3>> ELSE <<d1, d3, d3>>

(* The writes of the decision transaction, in order, and the closing read. *)
DecisionSteps(d, req, now) ==
  LET d1 == UpdateApproval(d, req.reportId, req.stage,
                           nextApprovalStatus(req.action), Some(req.user[1]),
                           Some(now), NormalizedNote(req))
      d2 == UpdateApproval(d1, req.reportId, "FINANCE", "PENDING", Null, Null, Null)
      d3 == UpdateReportStatus(IF req.stage = "MANAGER" THEN d2 ELSE d1,
                               req.reportId, nextReportStatus(req.stage, req.action))
  IN IF req.stage = "MANAGER" THEN <<d1, d2, d3, d3>> ELSE <<d1, d3, d3>>

(* Request bodies: the well-formed ones with every note, the well-formed ones
   with a database error at one statement, and the malformed or anonymous ones. *)
DecisionRequests(users, reports, notes, faults) ==
  LET admins == {Some(u) : u \in users}
  IN    [user : admins, reportId : reports, stage : Stages, action : Actions,
         note : notes, fault : {0}]
   \cup [user : admins, reportId : reports, stage : Stages, action : Actions,
         note : {Null}, fault : faults]
   \cup [user : admins, reportId : reports, stage : {"BOGUS"}, action : {"approve"},
         note : {Null}, fault : {0}]
   \cup [user : admins, reportId : reports, stage : Stages, action : {"bogus"},
         note : {Null}, fault : {0}]
   \cup [user : {Null}, reportId : reports, stage : Stages, action : {"approve"},
         note : {Null}, fault : {0}]

(* POST /:reportId/decision, the whole handler as one transaction *)
Decide(req) ==
  LET code == DecisionCheck(db, req)
  IN /\ prev' = db
     /\ UNCHANGED <<objects, draftStore>>
     /\ raced' = FALSE
     /\ IF code # 0
          THEN /\ db' = db
               /\ resp' = Response("decide", code, req.reportId, req.stage, "-", {})
          ELSE LET steps == DecisionSteps(db, req, Now(db, req.reportId))
               IN /\ db' = Transaction(db, steps, req.fault)
                  /\ resp' = Response("decide",
                                      IF Faulted(steps, req.fault) THEN 500 ELSE 200,
                                      req.reportId, req.stage, "-", {})
     /\ UNCHANGED inflight

(* GET /: the reports matching the where clause *)
statusMap(q) ==
  CASE q = "pending" -> "PENDING"
    [] q = "approved" -> "APPROVED"
    [] q = "rejected" -> "REJECTED"

WhereStatus(stage, q) ==
  IF stage = "MANAGER"
    THEN (CASE q = "pending" -> "SUBMITTED"
            [] q = "approved" -> "MANAGER_APPROVED"
            [] q = "rejected" -> "REJECTED")
    ELSE (CASE q = "pending" -> "MANAGER_APPROVED"
            [] q = "approved" -> "FINANCE_APPROVED"
            [] q = "rejected" -> "REJECTED")

FindManyReportsJoinOnly(d, stage, q) ==
  {row.reportId : row \in
     {rep \in d.reports :
        \E a \in ApprovalRows(d, rep.reportId) :
          a.stage = stage /\ a.status = statusMap(q)}}

FindManyReports(d, stage, q) ==
  {row.reportId : row \in
     {rep \in d.reports :
        /\ \E a \in ApprovalRows(d, rep.reportId) :
             a.stage = stage /\ a.status = statusMap(q)
        /\ rep.status = WhereStatus(stage, q)}}

ListRequests(users) ==
  LET admins == {Some(u) : u \in users}
  IN    [user : admins, stage : Stages, status : {Null} \cup {Some(q) : q \in QueryStatuses}]
   \cup [user : admins, stage : {"BOGUS"}, status : {Null}]
   \cup [user : admins, stage : Stages, status : {Some("bogus")}]
   \cup [user : {Null}, stage : Stages, status : {Null}]

(* approvalQuerySchema: status defaults to 'pending' *)
QueryStatus(req) == IF req.status = Null THEN "pending" ELSE req.status[1]

approvalQuerySchemaOk(req) ==
  req.stage \in Stages /\ QueryStatus(req) \in QueryStatuses

List(req) ==
  LET auth == requireAdmin(req.user, approvalRoles)
      code == IF auth # 0 THEN auth
              ELSE IF ~approvalQuerySchemaOk(req) THEN 400
              ELSE IF ~canActOnStage(RoleOf(req.user[1]), req.stage) THEN 403
              ELSE 200
  IN /\ resp' = Response("list", code, "-", req.stage, QueryStatus(req),
                         IF code = 200
                           THEN FindManyReports(db, req.stage, QueryStatus(req))
                           ELSE {})
     /\ prev' = db
     /\ UNCHANGED <<objects, draftStore>>
     /\ raced' = FALSE
     /\ UNCHANGED <<db, inflight>>

----------------------------------------------------------------------------
(* routes/reports.ts *)

(* typeof rawHeader.managerEmail === 'string' ? ... : '', then trim().toLowerCase() *)
NormalizedManagerEmail(req) ==
  ToLowerCase(Trim(IF req.managerEmail = Null THEN <<>> ELSE req.managerEmail[1]))

ExpenseLists(externalIds, n) ==
  BoundedSeq({Null} \cup {Some(e) : e \in externalIds}, n) \ {<<>>}

(* Request bodies: the valid ones, the valid ones with a database error at one
   statement, those the schema rejects and those without a usable manager email. *)
SubmitRequests(reports, expenseLists, faults) ==
        [reportId : reports, wellFormed : {TRUE}, managerEmail : {Some(<<"M">>), Some(<<" ", "m">>)},
         expenses : expenseLists, fault : {0}, employeeEmail : {<<"a">>}, finalizedAt : {3}]
   \cup [reportId : reports, wellFormed : {TRUE}, managerEmail : {Some(<<"M">>)},
         expenses : expenseLists, fault : faults, employeeEmail : {<<"a">>}, finalizedAt : {3}]
   \cup [reportId : reports, wellFormed : {FALSE}, managerEmail : {Some(<<"M">>)},
         expenses : {<<Null>>}, fault : {0}, employeeEmail : {<<"a">>}, finalizedAt : {3}]
   \cup [reportId : reports, wellFormed : {TRUE}, managerEmail : {Null, Some(<<>>), Some(<<" ">>)},
         expenses : {<<Null>>}, fault : {0}, employeeEmail : {<<"a">>}, finalizedAt : {3}]

(* expensesData: one row per submitted expense, externalId: expense.expenseId ?? null *)
expensesData(req) ==
  {[id |-> <<req.reportId, i>>, reportId |-> req.reportId, externalId |-> req.expenses[i]]
     : i \in 1..Len(req.expenses)}

(* unique indexes reports_pkey and expenses_report_external_id_key (NULLs never collide) *)
ReportKeyTaken(d, req) == HasReport(d, req.reportId)
ExternalIdCollision(req) ==
  \E i, j \in 1..Len(req.expenses) :
    i # j /\ req.expenses[i] # Null /\ req.expenses[i] = req.expenses[j]

(* receipt linking: expenseMap by externalId, then one update per receipt *)
LinkReceipts(d, r) ==
  LET withExternal == {e \in ExpenseRows(d, r) : e.externalId # Null}
      mapped(c) == {e \in withExternal : e.externalId[1] = c}
      link(rc) ==
        IF rc.reportId # r \/ rc.clientExpenseId = "" \/ mapped(rc.clientExpenseId) = {}
          THEN rc
          ELSE [rc EXCEPT !.expenseId = Some((CHOOSE e \in mapped(rc.clientExpenseId) : TRUE).id)]
  IN [d EXCEPT !.receipts = {link(rc) : rc \in d.receipts}]

SubmitStepsManagerApprovalOnly(d, req) ==
  LET d1 == [d EXCEPT !.reports = @ \cup
               {[reportId |-> req.reportId, status |-> "SUBMITTED",
                 managerEmail |-> NormalizedManagerEmail(req),
                 employeeEmail |-> ToLowerCase(req.employeeEmail),
                 finalizedAt |-> req.finalizedAt]}]
      d2 == [d1 EXCEPT !.expenses = @ \cup expensesData(req)]
      d3 == [d2 EXCEPT !.approvals = @ \cup {NewApproval(req.reportId, "MANAGER")}]
      d4 == LinkReceipts(d3, req.reportId)
  IN <<d1, d2, d3, d4>>

(* The statements of the submission transaction, in order. *)
SubmitSteps(d, req) ==
  LET d1 == [d EXCEPT !.reports = @ \cup
               {[reportId |-> req.reportId, status |-> "SUBMITTED",
                 managerEmail |-> NormalizedManagerEmail(req),
                 employeeEmail |-> ToLowerCase(req.employeeEmail),
                 finalizedAt |-> req.finalizedAt]}]
      d2 == [d1 EXCEPT !.expenses = @ \cup expensesData(req)]
      d3 == [d2 EXCEPT !.approvals = @ \cup
               {NewApproval(req.reportId, "MANAGER"), NewApproval(req.reportId, "FINANCE")}]
      d4 == LinkReceipts(d3, req.reportId)
  IN <<d1, d2, d3, d4>>

SubmitErrorStepNoReportKey(d, req) ==
  IF ExternalIdCollision(req) /\ (req.fault = 0 \/ req.fault > 1) THEN 2
  ELSE req.fault

(* The statement that throws, if any: P2002 at report.create or expense.createMany,
   otherwise the injected database error. *)
SubmitErrorStep(d, req) ==
  IF ReportKeyTaken(d, req) THEN 1
  ELSE IF ExternalIdCollision(req) /\ (req.fault = 0 \/ req.fault > 1) THEN 2
  ELSE req.fault

SubmitIsP2002(d, req) ==
  \/ ReportKeyTaken(d, req) /\ req.fault # 1
  \/ ~ReportKeyTaken(d, req) /\ ExternalIdCollision(req) /\ (req.fault = 0 \/ req.fault > 1)

(* POST /api/reports *)
Submit(req) ==
  LET code == IF ~req.wellFormed THEN 400
              ELSE IF NormalizedManagerEmail(req) = <<>> THEN 400
              ELSE IF SubmitIsP2002(db, req) THEN 409
              ELSE IF SubmitErrorStep(db, req) # 0 THEN 500
              ELSE 201
  IN /\ db' = IF code = 400 THEN db
              ELSE Transaction(db, SubmitSteps(db, req), SubmitErrorStep(db, req))
     /\ resp' = Response("submit", code, req.reportId, "-", "-", {})
     /\ prev' = db
     /\ UNCHANGED <<objects, draftStore>>
     /\ raced' = FALSE
     /\ UNCHANGED inflight

----------------------------------------------------------------------------
(* routes/receipts.ts and lib/receiptStorage.ts *)

MAX_FILE_SIZE == 10 * 1024 * 1024
MAX_FILE_COUNT == 5

RECEIPT_ALLOWED_MIME_PREFIXES == {<<"image", "/">>}
RECEIPT_ALLOWED_MIME_TYPES == {<<"application", "/", "pdf">>}

(* A MIME type is the sequence of its parts, so that startsWith is a comparison
   of a leading subsequence. *)
StartsWith(s, prefix) == Len(s) >= Len(prefix) /\ SubSeq(s, 1, Len(prefix)) = prefix

isMimeAllowedAnyType(mime) == mime # <<>>

isMimeAllowed(mime) ==
  IF mime = <<>> THEN FALSE
  ELSE IF mime \in RECEIPT_ALLOWED_MIME_TYPES THEN TRUE
  ELSE \E prefix \in RECEIPT_ALLOWED_MIME_PREFIXES : StartsWith(mime, prefix)

File(name, mime, size) == [originalname |-> name, mimetype |-> mime, size |-> size]

(* multer reads the parts in order: the part after the last allowed one raises
   LIMIT_FILE_COUNT, a part longer than the limit raises LIMIT_FILE_SIZE. *)
MulterError(files) ==
  LET tooBig == {i \in 1..Len(files) : files[i].size > MAX_FILE_SIZE}
  IN IF \E i \in tooBig : i <= MAX_FILE_COUNT THEN "LIMIT_FILE_SIZE"
     ELSE IF Len(files) > MAX_FILE_COUNT THEN "LIMIT_FILE_COUNT"
     ELSE "none"

(* The checks of the upload handler before anything is stored; 0: all passed. *)
UploadCheck(req) ==
  IF MulterError(req.files) = "LIMIT_FILE_SIZE" THEN 413
  ELSE IF MulterError(req.files) = "LIMIT_FILE_COUNT" THEN 400
  ELSE IF req.reportId = Null \/ req.expenseId = Null THEN 400
  ELSE IF req.files = <<>> THEN 400
  ELSE IF \E i \in 1..Len(req.files) : ~isMimeAllowed(req.files[i].mimetype) THEN 415
  ELSE 0

(* storage.upload: one object per file under a key that is new every time. *)
StoredObject(objs, req, i) ==
  [key |-> Cardinality(objs) + i, reportId |-> req.reportId[1], expenseId |-> req.expenseId[1],
   fileName |-> req.files[i].originalname, size |-> req.files[i].size]

(* Promise.all over the files: every upload is started, those that do not fail
   leave their object behind whatever happens to the others. *)
StoreFiles(objs, req) ==
  objs \cup {StoredObject(objs, req, i) : i \in (1..Len(req.files)) \ req.storageFaults}

(* tx.receipt.create: expenseId is not given and stays NULL; storageUrl is what
   the provider returned from upload, 'memory://' followed by the key *)
NewReceipt(d, objs, req, i) ==
  [id |-> Cardinality(d.receipts) + i, reportId |-> req.reportId[1],
   clientExpenseId |-> req.expenseId[1], expenseId |-> Null,
   fileName |-> req.files[i].originalname, contentType |-> req.files[i].mimetype,
   fileSize |-> req.files[i].size, storageKey |-> StoredObject(objs, req, i).key,
   storageUrl |-> Some(<<"memory://", StoredObject(objs, req, i).key>>)]

ReceiptCreateSteps(d, objs, req) ==
  [k \in 1..Len(req.files) |->
     [d EXCEPT !.receipts = @ \cup {NewReceipt(d, objs, req, i) : i \in 1..k}]]

(* receipts_report_id_fkey: a receipt row needs its report row *)
ReceiptForeignKeyViolated(d, req) == ~HasReport(d, req.reportId[1])

(* The create that throws, if any. *)
UploadErrorStep(d, req) ==
  IF ReceiptForeignKeyViolated(d, req) THEN 1 ELSE req.fault

(* Requests: the acceptable ones, the same with a failing upload to the storage
   provider or a failing database, and the given unacceptable ones. *)
UploadRequests(reports, expenseIds, fileLists, badRequests) ==
        [reportId : {Some(r) : r \in reports}, expenseId : {Some(e) : e \in expenseIds},
         files : fileLists, storageFaults : {{}}, fault : {0}]
   \cup [reportId : {Some(r) : r \in reports}, expenseId : {Some(e) : e \in expenseIds},
         files : {fs \in fileLists : Len(fs) = 1}, storageFaults : {{}}, fault : {1}]
   \cup [reportId : {Some(r) : r \in reports}, expenseId : {Some(e) : e \in expenseIds},
         files : {fs \in fileLists : Len(fs) = 2}, storageFaults : {{1}}, fault : {0}]
   \cup badRequests

(* POST /api/receipts *)
Upload(req, maxReceipts, maxObjects) ==
  LET code == UploadCheck(req)
  IN /\ code = 0 => /\ Cardinality(db.receipts) + Len(req.files) <= maxReceipts
                    /\ Cardinality(objects) + Len(req.files) <= maxObjects
     /\ prev' = db
     /\ raced' = FALSE
     /\ UNCHANGED <<inflight, draftStore>>
     /\ IF code # 0
          THEN /\ UNCHANGED <<db, objects>>
               /\ resp' = Response("upload", code, "-", "-", "-", {})
          ELSE /\ objects' = StoreFiles(objects, req)
               /\ IF req.storageFaults # {}
                    THEN /\ db' = db
                         /\ resp' = Response("upload", 500, req.reportId[1], "-", "-", {})
                    ELSE LET steps == ReceiptCreateSteps(db, objects, req)
                             fault == UploadErrorStep(db, req)
                         IN /\ db' = Transaction(db, steps, fault)
                            /\ resp' = Response("upload",
                                                IF Faulted(steps, fault) THEN 500 ELSE 201,
                                                req.reportId[1], "-", "-", {})

----------------------------------------------------------------------------
(* routes/adminReports.ts: the export.  Instants are counted in half days: a
   day d starts at 2 * d, its noon is 2 * d + 1. *)

(* String.split(','): the pieces between the commas *)
RECURSIVE Split(_)
Split(s) ==
  IF \A i \in 1..Len(s) : s[i] # "," THEN <<s>>
  ELSE LET k == CHOOSE i \in 1..Len(s) : s[i] = "," /\ \A j \in 1..(i - 1) : s[j] # ","
       IN <<SubSeq(s, 1, k - 1)>> \o Split(SubSeq(s, k + 1, Len(s)))

(* new Date(string): a date without a time is its midnight (UTC); NaN, here
   Null, for a string that is no date *)
ParseDate(str) ==
  CASE str = "2024-03-01" -> Some(2)
    [] str = "2024-03-02" -> Some(4)
    [] str = "2024-03-02T12:00:00Z" -> Some(5)
    [] OTHER -> Null

(* querySchema: start and end are non-empty strings that are dates *)
querySchemaOk(req) ==
  /\ req.start # Null /\ req.start[1] # ""
  /\ req.end # Null /\ req.end[1] # ""
  /\ ParseDate(req.start[1]) # Null
  /\ ParseDate(req.end[1]) # Null

(* the transform's employees: split, trimmed, lower-cased, the empty pieces
   dropped; undefined (Null) when nothing is left *)
normalizedEmployees(req) ==
  LET employees == IF req.employees = Null THEN <<>> ELSE Split(req.employees[1])
      normalized == {ToLowerCase(Trim(employees[i])) : i \in 1..Len(employees)} \ {<<>>}
  IN IF normalized = {} THEN Null ELSE Some(normalized)

querySchema(req) ==
  [start |-> ParseDate(req.start[1])[1], end |-> ParseDate(req.end[1])[1],
   employees |-> normalizedEmployees(req)]

findManyExportAnyStatus(d, parsed) ==
  {rep \in d.reports :
     /\ rep.finalizedAt >= parsed.start
     /\ rep.finalizedAt <= parsed.end
     /\ parsed.employees # Null => rep.employeeEmail \in parsed.employees[1]}

(* prisma.report.findMany: the where clause *)
findManyExport(d, parsed) ==
  {rep \in d.reports :
     /\ rep.finalizedAt >= parsed.start
     /\ rep.finalizedAt <= parsed.end
     /\ rep.status = "FINANCE_APPROVED"
     /\ parsed.employees # Null => rep.employeeEmail \in parsed.employees[1]}

(* The rows of the three tables hold the values handed to csvValue; the order
   of the lines is left out. *)
approvalByStage(d, rep, stage, field) ==
  IF HasApproval(d, rep.reportId, stage) THEN ApprovalRow(d, rep.reportId, stage)[field] ELSE ""

reportLine(d, rep) ==
  [reportId |-> rep.reportId, employeeEmail |-> ToLowerCase(rep.employeeEmail),
   finalizedAt |-> rep.finalizedAt, status |-> rep.status, managerEmail |-> rep.managerEmail,
   managerStatus |-> approvalByStage(d, rep, "MANAGER", "status"),
   financeStatus |-> approvalByStage(d, rep, "FINANCE", "status")]

expenseLine(expense) ==
  [reportId |-> expense.reportId, expenseId |-> expense.id,
   externalId |-> IF expense.externalId = Null THEN "" ELSE expense.externalId[1]]

(* storage.getDownloadUrl as the export sees it: a fresh URL, nothing
   (undefined), or a rejected promise *)
getDownloadUrl(receipt, urlFault) ==
  IF urlFault # Null /\ urlFault[1].receipt = receipt.id
    THEN [threw |-> urlFault[1].how = "throws", url |-> Null]
    ELSE [threw |-> FALSE, url |-> Some(<<"signed://", receipt.storageKey>>)]

(* downloadUrl ?? receipt.storageUrl ?? '' *)
receiptLine(receipt, downloadUrl) ==
  [reportId |-> receipt.reportId, receiptId |-> receipt.id,
   clientExpenseId |-> receipt.clientExpenseId,
   expenseId |-> IF receipt.expenseId = Null THEN "" ELSE receipt.expenseId[1],
   fileName |-> receipt.fileName, storageKey |-> receipt.storageKey,
   downloadUrl |-> IF downloadUrl # Null THEN downloadUrl[1]
                   ELSE IF receipt.storageUrl # Null THEN receipt.storageUrl[1]
                   ELSE <<>>]

ExportResponse(code, req, reportLines, expenseLines, receiptLines) ==
  [op |-> "export", code |-> code, request |-> req, reportLines |-> reportLines,
   expenseLines |-> expenseLines, receiptLines |-> receiptLines]

(* Queries by an admin of finance: every pair of bounds without a filter, every
   end with every filter, a bound that is missing, empty or no date, the widest
   range with a provider that fails for one receipt; and the queries of an
   admin without the role and of nobody. *)
ExportRequests(users, dates, badDates, filters, urlFaults) ==
        [user : {Some(u) : u \in users}, start : dates, end : dates,
         employees : {Null}, urlFault : {Null}]
   \cup [user : {Some(u) : u \in users}, start : {Some("2024-03-01")}, end : dates,
         employees : filters, urlFault : {Null}]
   \cup [user : {Some(u) : u \in users}, start : badDates, end : {Some("2024-03-02")},
         employees : {Null}, urlFault : {Null}]
   \cup [user : {Some(u) : u \in users}, start : {Some("2024-03-01")}, end : badDates,
         employees : {Null}, urlFault : {Null}]
   \cup [user : {Some(u) : u \in users}, start : {Some("2024-03-01")},
         end : {Some("2024-03-02T12:00:00Z")}, employees : {Null},
         urlFault : {Some(f) : f \in urlFaults}]
   \cup [user : {Null, Some("mia")}, start : {Some("2024-03-01")},
         end : {Some("2024-03-02")}, employees : {Null}, urlFault : {Null}]

(* GET /api/admin/reports: an exception after the query is passed to the error
   handler, which answers 500 *)
Export(req) ==
  LET auth == requireAdmin(req.user, financeRoles)
      reports == findManyExport(db, querySchema(req))
      receipts == UNION {ReceiptRows(db, rep.reportId) : rep \in reports}
      expenses == UNION {ExpenseRows(db, rep.reportId) : rep \in reports}
      code == IF auth # 0 THEN auth
              ELSE IF ~querySchemaOk(req) THEN 400
              ELSE IF querySchema(req).start > querySchema(req).end THEN 400
              ELSE IF \E rc \in receipts : getDownloadUrl(rc, req.urlFault).threw THEN 500
              ELSE 200
  IN /\ resp' = IF code # 200 THEN ExportResponse(code, req, {}, {}, {})
                ELSE ExportResponse(200, req,
                                    {reportLine(db, rep) : rep \in reports},
                                    {expenseLine(e) : e \in expenses},
                                    {receiptLine(rc, getDownloadUrl(rc, req.urlFault).url)
                                       : rc \in receipts})
     /\ prev' = db
     /\ raced' = FALSE
     /\ UNCHANGED <<db, inflight, objects, draftStore>>

----------------------------------------------------------------------------
(* src/receiptStorage.js: the Draft Store.  A store value holds the strategy in
   use and the contents of both: the IndexedDB object store (records keyed by
   id, indexed by [draftId, expenseId]) and the file tree (one directory per
   draft and expense, holding one file per receipt id and the manifest
   __metadata.json).  issued counts the ids handed out by uuid(). *)

Strategies == {"indexedDB", "fileSystem"}

EmptyStore(strategy) == [strategy |-> strategy, idb |-> {}, fs |-> {}, issued |-> 0]

(* The UTF-16 code units of the identifiers used as expense ids: IndexedDB
   orders string keys by them.  "uffff-x" stands for the two-unit string whose
   first unit is U+FFFF. *)
CodeUnits(str) ==
  CASE str = "" -> <<>>
    [] str = "e1" -> <<101, 49>>
    [] str = "e2" -> <<101, 50>>
    [] str = "uffff" -> <<65535>>
    [] str = "uffff-x" -> <<65535, 120>>

RECURSIVE UnitsLessEq(_, _)
UnitsLessEq(a, b) ==
  IF a = <<>> THEN TRUE
  ELSE IF b = <<>> THEN FALSE
  ELSE IF Head(a) # Head(b) THEN Head(a) < Head(b)
  ELSE UnitsLessEq(Tail(a), Tail(b))

StringLessEq(a, b) == UnitsLessEq(CodeUnits(a), CodeUnits(b))

(* IDBKeyRange.only([draftId, expenseId]) and
   IDBKeyRange.bound([draftId, ''], [draftId, '\uffff']) on the index *)
KeyRangeOnly(record, draftId, expenseId) ==
  record.draftId = draftId /\ record.expenseId = expenseId
KeyRangeDraft(record, draftId) ==
  /\ record.draftId = draftId
  /\ StringLessEq("", record.expenseId)
  /\ StringLessEq(record.expenseId, "uffff")

Blob(name, type, size, bytes) == [name |-> name, type |-> type, size |-> size, bytes |-> bytes]

OctetStream == <<"application", "/", "octet-stream">>

buildMetadataRecord(draftId, expenseId, file, id) ==
  [id |-> id, draftId |-> draftId, expenseId |-> expenseId,
   fileName |-> IF file.name = "" THEN "receipt" ELSE file.name,
   fileSize |-> file.size,
   contentType |-> IF file.type = <<>> THEN OctetStream ELSE file.type]

normalizeMetadata(record) ==
  [id |-> record.id, draftId |-> record.draftId, expenseId |-> record.expenseId,
   fileName |-> record.fileName, fileSize |-> record.fileSize,
   contentType |-> record.contentType]

StoredRecord(meta, blob) ==
  [id |-> meta.id, draftId |-> meta.draftId, expenseId |-> meta.expenseId,
   fileName |-> meta.fileName, fileSize |-> meta.fileSize,
   contentType |-> meta.contentType, blob |-> blob]

SelectedIdsKeepEmpty(receiptIds) == receiptIds

(* Array.isArray(receiptIds) && receiptIds.length ? receiptIds : null, as the
   set of the ids or Null *)
SelectedIds(receiptIds) ==
  IF receiptIds = Null \/ receiptIds[1] = {} THEN Null ELSE receiptIds

(* The metadata save returns: one record per file, each with a new id. *)
SavedMetadata(st, draftId, expenseId, files) ==
  [i \in 1..Len(files) |-> buildMetadataRecord(draftId, expenseId, files[i], st.issued + i)]

ExpenseDirectory(st, draftId, expenseId) ==
  {dir \in st.fs : dir.draftId = draftId /\ dir.expenseId = expenseId}

saveReceiptsToFileSystemKeepDirectory(st, draftId, expenseId, files) ==
  LET metadata == SavedMetadata(st, draftId, expenseId, files)
      old == UNION {dir.files : dir \in ExpenseDirectory(st, draftId, expenseId)}
      dir == [draftId |-> draftId, expenseId |-> expenseId,
              files |-> old \cup {[id |-> metadata[i].id, blob |-> files[i]] : i \in 1..Len(files)},
              manifest |-> {metadata[i] : i \in 1..Len(files)}]
  IN [st EXCEPT !.fs = (@ \ ExpenseDirectory(st, draftId, expenseId)) \cup {dir},
                !.issued = @ + Len(files)]

saveReceiptsToFileSystem(st, draftId, expenseId, files) ==
  LET metadata == SavedMetadata(st, draftId, expenseId, files)
      dir == [draftId |-> draftId, expenseId |-> expenseId,
              files |-> {[id |-> metadata[i].id, blob |-> files[i]] : i \in 1..Len(files)},
              manifest |-> {metadata[i] : i \in 1..Len(files)}]
  IN [st EXCEPT !.fs = (@ \ ExpenseDirectory(st, draftId, expenseId)) \cup {dir},
                !.issued = @ + Len(files)]

saveReceiptsForExpense(st, draftId, expenseId, files) ==
  IF files = <<>> THEN st
  ELSE IF st.strategy = "fileSystem" THEN saveReceiptsToFileSystem(st, draftId, expenseId, files)
  ELSE LET metadata == SavedMetadata(st, draftId, expenseId, files)
           kept == {rec \in st.idb : ~KeyRangeOnly(rec, draftId, expenseId)}
       IN [st EXCEPT !.idb = kept \cup {StoredRecord(metadata[i], files[i]) : i \in 1..Len(files)},
                     !.issued = @ + Len(files)]

getStoredReceiptsFromFileSystem(st, draftId, expenseId, receiptIds) ==
  LET ids == SelectedIds(receiptIds)
      dirs == ExpenseDirectory(st, draftId, expenseId)
  IN UNION {{[metadata |-> normalizeMetadata(item), blob |-> f.blob] :
               <<item, f>> \in {pair \in dir.manifest \X dir.files :
                                  /\ pair[1].id = pair[2].id
                                  /\ (ids # Null => pair[1].id \in ids[1])}}
            : dir \in dirs}

getStoredReceipts(st, draftId, expenseId, receiptIds) ==
  IF st.strategy = "fileSystem"
    THEN getStoredReceiptsFromFileSystem(st, draftId, expenseId, receiptIds)
  ELSE LET ids == SelectedIds(receiptIds)
       IN {[metadata |-> normalizeMetadata(rec), blob |-> rec.blob] :
             rec \in {r \in st.idb : /\ KeyRangeOnly(r, draftId, expenseId)
                                     /\ (ids # Null => r.id \in ids[1])}}

deleteReceiptsFromFileSystem(st, draftId, expenseId, receiptIds) ==
  LET ids == SelectedIds(receiptIds)
      dirs == ExpenseDirectory(st, draftId, expenseId)
      pruned(dir) == [dir EXCEPT !.files = {f \in @ : f.id \notin ids[1]},
                                 !.manifest = {item \in @ : item.id \notin ids[1]}]
  IN IF ids = Null THEN [st EXCEPT !.fs = @ \ dirs]
     ELSE [st EXCEPT !.fs = (@ \ dirs) \cup
                             {pruned(dir) : dir \in {x \in dirs : pruned(x).manifest # {}}}]

deleteReceipts(st, draftId, expenseId, receiptIds) ==
  IF st.strategy = "fileSystem"
    THEN deleteReceiptsFromFileSystem(st, draftId, expenseId, receiptIds)
  ELSE LET ids == SelectedIds(receiptIds)
       IN IF ids # Null
            THEN [st EXCEPT !.idb = {rec \in @ : rec.id \notin ids[1]}]
            ELSE [st EXCEPT !.idb = {rec \in @ : ~KeyRangeOnly(rec, draftId, expenseId)}]

clearReceiptsForDraft(st, draftId) ==
  IF st.strategy = "fileSystem"
    THEN [st EXCEPT !.fs = {dir \in @ : dir.draftId # draftId}]
  ELSE [st EXCEPT !.idb = {rec \in @ : ~KeyRangeDraft(rec, draftId)}]

(* listReceiptMetadataForDraft: the expense ids with receipts and their metadata *)
listReceiptMetadataForDraft(st, draftId) ==
  IF st.strategy = "fileSystem"
    THEN {normalizeMetadata(item) :
            item \in UNION {dir.manifest : dir \in {x \in st.fs : x.draftId = draftId}}}
  ELSE {normalizeMetadata(rec) : rec \in {r \in st.idb : KeyRangeDraft(r, draftId)}}

(* A call of the Draft Store and what it returned. *)
DraftCall(op, draftId, expenseId, files, ids, result) ==
  [op |-> op, draftId |-> draftId, expenseId |-> expenseId, files |-> files,
   ids |-> ids, result |-> result]

StoredIds(st) ==
  {rec.id : rec \in st.idb} \cup UNION {{f.id : f \in dir.files} : dir \in st.fs}

DraftSave(draftId, expenseId, files, maxStaged) ==
  /\ draftStore.issued + Len(files) <= maxStaged
  /\ draftStore' = saveReceiptsForExpense(draftStore, draftId, expenseId, files)
  /\ resp' = DraftCall("save", draftId, expenseId, files, Null,
                       IF files = <<>> THEN <<>>
                       ELSE [i \in 1..Len(files) |->
                               normalizeMetadata(SavedMetadata(draftStore, draftId, expenseId, files)[i])])
  /\ UNCHANGED <<db, inflight, prev, raced, objects, client>>

DraftGet(draftId, expenseId, receiptIds) ==
  /\ resp' = DraftCall("get", draftId, expenseId, <<>>, receiptIds,
                       getStoredReceipts(draftStore, draftId, expenseId, receiptIds))
  /\ UNCHANGED <<db, inflight, prev, raced, objects, draftStore, client>>

DraftDelete(draftId, expenseId, receiptIds) ==
  /\ draftStore' = deleteReceipts(draftStore, draftId, expenseId, receiptIds)
  /\ resp' = DraftCall("delete", draftId, expenseId, <<>>, receiptIds, {})
  /\ UNCHANGED <<db, inflight, prev, raced, objects, client>>

DraftClear(draftId) ==
  /\ draftStore' = clearReceiptsForDraft(draftStore, draftId)
  /\ resp' = DraftCall("clear", draftId, "", <<>>, Null, {})
  /\ UNCHANGED <<db, inflight, prev, raced, objects, client>>

DraftList(draftId) ==
  /\ resp' = DraftCall("list", draftId, "", <<>>, Null,
                       listReceiptMetadataForDraft(draftStore, draftId))
  /\ UNCHANGED <<db, inflight, prev, raced, objects, draftStore, client>>

(* The same call made against both strategies, each working on its own
   contents: the two returned values are kept side by side.  uuid() hands out
   the same ids to both. *)
As(st, strategy) == [st EXCEPT !.strategy = strategy]

Both(st, idbNext, fsNext) ==
  [strategy |-> st.strategy, idb |-> idbNext.idb, fs |-> fsNext.fs, issued |-> idbNext.issued]

SaveResult(st, draftId, expenseId, files) ==
  IF files = <<>> THEN <<>>
  ELSE [i \in 1..Len(files) |-> normalizeMetadata(SavedMetadata(st, draftId, expenseId, files)[i])]

PairSave(draftId, expenseId, files, maxStaged) ==
  /\ draftStore.issued + Len(files) <= maxStaged
  /\ draftStore' = Both(draftStore,
                        saveReceiptsForExpense(As(draftStore, "indexedDB"), draftId, expenseId, files),
                        saveReceiptsForExpense(As(draftStore, "fileSystem"), draftId, expenseId, files))
  /\ resp' = DraftCall("save", draftId, expenseId, files, Null,
                       <<SaveResult(As(draftStore, "indexedDB"), draftId, expenseId, files),
                         SaveResult(As(draftStore, "fileSystem"), draftId, expenseId, files)>>)
  /\ UNCHANGED <<db, inflight, prev, raced, objects, client>>

PairGet(draftId, expenseId, receiptIds) ==
  /\ resp' = DraftCall("get", draftId, expenseId, <<>>, receiptIds,
                       <<getStoredReceipts(As(draftStore, "indexedDB"), draftId, expenseId, receiptIds),
                         getStoredReceipts(As(draftStore, "fileSystem"), draftId, expenseId, receiptIds)>>)
  /\ UNCHANGED <<db, inflight, prev, raced, objects, draftStore, client>>

PairDelete(draftId, expenseId, receiptIds) ==
  /\ draftStore' = Both(draftStore,
                        deleteReceipts(As(draftStore, "indexedDB"), draftId, expenseId, receiptIds),
                        deleteReceipts(As(draftStore, "fileSystem"), draftId, expenseId, receiptIds))
  /\ resp' = DraftCall("delete", draftId, expenseId, <<>>, receiptIds, <<{}, {}>>)
  /\ UNCHANGED <<db, inflight, prev, raced, objects, client>>

PairClear(draftId) ==
  /\ draftStore' = Both(draftStore,
                        clearReceiptsForDraft(As(draftStore, "indexedDB"), draftId),
                        clearReceiptsForDraft(As(draftStore, "fileSystem"), draftId))
  /\ resp' = DraftCall("clear", draftId, "", <<>>, Null, <<{}, {}>>)
  /\ UNCHANGED <<db, inflight, prev, raced, objects, client>>

PairList(draftId) ==
  /\ resp' = DraftCall("list", draftId, "", <<>>, Null,
                       <<listReceiptMetadataForDraft(As(draftStore, "indexedDB"), draftId),
                         listReceiptMetadataForDraft(As(draftStore, "fileSystem"), draftId)>>)
  /\ UNCHANGED <<db, inflight, prev, raced, objects, draftStore, client>>

----------------------------------------------------------------------------
(* The file-tree strategy step by step.  Every await of a call on the file
   tree is a step, and the page may go away between two steps: the call is
   abandoned and the tree stays as the steps taken so far left it.  resp holds
   the running call: its position, the files still to write or the ids still
   to remove, and the metadata it has collected. *)
FsCall(op, pc, draftId, expenseId, files, ids, metadata) ==
  [op |-> op, pc |-> pc, draftId |-> draftId, expenseId |-> expenseId, files |-> files,
   ids |-> ids, metadata |-> metadata]

FsIdle == IF resp.op = "none" THEN TRUE ELSE resp.pc \in {"done", "crashed"}

EmptyDirectory(draftId, expenseId) ==
  [draftId |-> draftId, expenseId |-> expenseId, files |-> {}, manifest |-> {}]

(* removeExpenseDirectory *)
removeExpenseDirectory(st, draftId, expenseId) ==
  [st EXCEPT !.fs = @ \ ExpenseDirectory(st, draftId, expenseId)]

(* writeFileToHandle, in the directory of the expense *)
writeFileToHandle(st, draftId, expenseId, id, blob) ==
  [st EXCEPT !.fs = {IF dir \in ExpenseDirectory(st, draftId, expenseId)
                       THEN [dir EXCEPT !.files = {f \in @ : f.id # id} \cup {[id |-> id, blob |-> blob]}]
                       ELSE dir : dir \in @}]

(* writeMetadataFile *)
writeMetadataFile(st, draftId, expenseId, metadata) ==
  [st EXCEPT !.fs = {IF dir \in ExpenseDirectory(st, draftId, expenseId)
                       THEN [dir EXCEPT !.manifest = metadata]
                       ELSE dir : dir \in @}]

(* expenseDir.removeEntry(id) *)
removeEntry(st, draftId, expenseId, id) ==
  [st EXCEPT !.fs = {IF dir \in ExpenseDirectory(st, draftId, expenseId)
                       THEN [dir EXCEPT !.files = {f \in @ : f.id # id}]
                       ELSE dir : dir \in @}]

FsFrame == UNCHANGED <<db, inflight, prev, raced, objects, client>>

(* saveReceiptsForExpense entered with the file-tree strategy *)
FsSaveCall(draftId, expenseId, files, maxStaged) ==
  /\ FsIdle
  /\ files # <<>>
  /\ draftStore.issued + Len(files) <= maxStaged
  /\ resp' = FsCall("save", "remove", draftId, expenseId, files, {}, {})
  /\ UNCHANGED draftStore
  /\ FsFrame

(* saveReceiptsToFileSystem, one await at a time *)
FsSaveStep ==
  /\ ~FsIdle /\ resp.op = "save"
  /\ CASE resp.pc = "remove" ->
            /\ draftStore' = removeExpenseDirectory(draftStore, resp.draftId, resp.expenseId)
            /\ resp' = [resp EXCEPT !.pc = "mkdir"]
       [] resp.pc = "mkdir" ->
            /\ draftStore' = [draftStore EXCEPT !.fs = @ \cup {EmptyDirectory(resp.draftId, resp.expenseId)}]
            /\ resp' = [resp EXCEPT !.pc = "write"]
       [] resp.pc = "write" ->
            LET id == draftStore.issued + 1
                file == Head(resp.files)
            IN /\ draftStore' = [writeFileToHandle(draftStore, resp.draftId, resp.expenseId, id, file)
                                   EXCEPT !.issued = id]
               /\ resp' = [resp EXCEPT
                             !.files = Tail(@),
                             !.metadata = @ \cup {buildMetadataRecord(resp.draftId, resp.expenseId, file, id)},
                             !.pc = IF Tail(resp.files) = <<>> THEN "manifest" ELSE "write"]
       [] resp.pc = "manifest" ->
            /\ draftStore' = writeMetadataFile(draftStore, resp.draftId, resp.expenseId, resp.metadata)
            /\ resp' = [resp EXCEPT !.pc = "done"]
  /\ FsFrame

(* deleteReceipts entered with the file-tree strategy *)
FsDeleteCall(draftId, expenseId, receiptIds) ==
  /\ FsIdle
  /\ resp' = IF SelectedIds(receiptIds) = Null
               THEN FsCall("delete", "remove", draftId, expenseId, <<>>, {}, {})
               ELSE FsCall("delete", "read", draftId, expenseId, <<>>, receiptIds[1], {})
  /\ UNCHANGED draftStore
  /\ FsFrame

(* deleteReceiptsFromFileSystem, one await at a time *)
FsDeleteStep ==
  /\ ~FsIdle /\ resp.op = "delete"
  /\ CASE resp.pc = "remove" ->
            /\ draftStore' = removeExpenseDirectory(draftStore, resp.draftId, resp.expenseId)
            /\ resp' = [resp EXCEPT !.pc = "done"]
       [] resp.pc = "read" ->
            LET dirs == ExpenseDirectory(draftStore, resp.draftId, resp.expenseId)
            IN /\ UNCHANGED draftStore
               /\ resp' = IF dirs = {} THEN [resp EXCEPT !.pc = "done"]
                          ELSE [resp EXCEPT
                                  !.pc = "unlink",
                                  !.metadata = {item \in UNION {dir.manifest : dir \in dirs} :
                                                  item.id \notin resp.ids}]
       [] resp.pc = "unlink" ->
            \E id \in resp.ids :
              /\ draftStore' = removeEntry(draftStore, resp.draftId, resp.expenseId, id)
              /\ resp' = [resp EXCEPT !.ids = @ \ {id},
                                      !.pc = IF resp.ids = {id} THEN "finish" ELSE "unlink"]
       [] resp.pc = "finish" ->
            /\ draftStore' =
                 IF resp.metadata = {}
                   THEN removeExpenseDirectory(draftStore, resp.draftId, resp.expenseId)
                   ELSE writeMetadataFile(draftStore, resp.draftId, resp.expenseId, resp.metadata)
            /\ resp' = [resp EXCEPT !.pc = "done"]
  /\ FsFrame

(* clearReceiptsForDraft with the file-tree strategy: removeDraftDirectory *)
FsClear(draftId) ==
  /\ FsIdle
  /\ draftStore' = clearReceiptsForDraft(draftStore, draftId)
  /\ resp' = FsCall("clear", "done", draftId, "", <<>>, {}, {})
  /\ FsFrame

(* The page goes away during a call and is loaded again: loadState reads the
   manifests as they are. *)
FsCrash ==
  /\ ~FsIdle
  /\ resp' = [resp EXCEPT !.pc = "crashed"]
  /\ UNCHANGED draftStore
  /\ FsFrame

----------------------------------------------------------------------------
(* The decision handler under concurrent requests.  The transaction runs at
   the database's default isolation (READ COMMITTED): findUnique takes no lock,
   so other transactions may commit between the read and the first update.  The
   updates take the row locks in the order MANAGER row, FINANCE row, report row
   and hold them to the commit, so the writes of one transaction are never
   interleaved with the writes of another. *)

NoRequest ==
  [user |-> Null, reportId |-> "-", stage |-> "-", action |-> "-", note |-> Null, fault |-> 0]
FreeSlot == [busy |-> FALSE, req |-> NoRequest, raced |-> FALSE]
Slots == 1..MaxInFlight

(* The request is received and the transaction reads the approval and checks
   the preconditions; a request that fails a check is answered at once. *)
DecideBegin(i, req) ==
  LET code == DecisionCheck(db, req)
  IN /\ ~inflight[i].busy
     /\ \A j \in Slots : j < i => inflight[j].busy
     /\ prev' = db
     /\ UNCHANGED <<objects, draftStore>>
     /\ raced' = FALSE
     /\ db' = db
     /\ IF code # 0
          THEN /\ resp' = Response("decide", code, req.reportId, req.stage, "-", {})
               /\ UNCHANGED inflight
          ELSE /\ resp' = Response("read", 0, req.reportId, req.stage, "-", {})
               /\ inflight' = [inflight EXCEPT ![i] = [busy |-> TRUE, req |-> req, raced |-> FALSE]]

(* The transaction writes and commits (or fails at a statement and rolls back). *)
DecideCommit(i) ==
  LET req == inflight[i].req
      steps == DecisionSteps(db, req, Now(db, req.reportId))
      ok == ~Faulted(steps, req.fault)
  IN /\ inflight[i].busy
     /\ prev' = db
     /\ UNCHANGED <<objects, draftStore>>
     /\ raced' = inflight[i].raced
     /\ db' = Transaction(db, steps, req.fault)
     /\ resp' = Response("decide", IF ok THEN 200 ELSE 500, req.reportId, req.stage, "-", {})
     /\ inflight' = [j \in Slots |->
          IF j = i THEN FreeSlot
          ELSE IF ok /\ inflight[j].busy /\ inflight[j].req.reportId = req.reportId
                  /\ inflight[j].req.stage = req.stage
            THEN [inflight[j] EXCEPT !.raced = TRUE]
            ELSE inflight[j]]

----------------------------------------------------------------------------
(* src/main.js: the finalize operation of the client.  The page is online or,
   for good, offline only.  The client works on one draft with two expenses; a finalized draft is replaced by a
   fresh one without expenses.  Every await of the code is a point where other
   work may run: an upload call is a task (read the staged files, request sent,
   answer received, settled), the finalize call is the run. *)

FreshDraft == "r-next"

(* No finalize call is running.  The field store is history: the Draft Store
   as the running call found it. *)
NoRun ==
  [n |-> 0, pc |-> "idle", reportId |-> "", queue |-> <<>>, code |-> 0,
   store |-> EmptyStore("indexedDB")]

InitialClient ==
  [draftId |-> "r1", expenses |-> <<"e1", "e2">>, history |-> {}, submitting |-> FALSE,
   pending |-> [e \in ExternalIds |-> {}], attempts |-> 0, run |-> NoRun, tasks |-> {},
   sentBy |-> {}, rowsOf |-> {}, offlineOnly |-> FALSE]

hasPendingReceiptUploads(c) == \E e \in ExternalIds : c.pending[e] # {}

(* The receipt input changed: the files are saved to the Draft Store and their
   metadata becomes the pending list of the expense. *)
Attach(e, files, maxStaged) ==
  /\ \E i \in 1..Len(client.expenses) : client.expenses[i] = e
  /\ draftStore.issued + Len(files) <= maxStaged
  /\ draftStore' = saveReceiptsForExpense(draftStore, client.draftId, e, files)
  /\ client' = [client EXCEPT !.pending[e] =
                  {SavedMetadata(draftStore, client.draftId, e, files)[i].id : i \in 1..Len(files)}]
  /\ UNCHANGED <<db, resp, inflight, prev, raced, objects>>

(* uploadReceiptsForExpense up to its first await *)
NewTask(n, draftId, reportId, e, ids) ==
  [attempt |-> n, draftId |-> draftId, reportId |-> reportId, expenseId |-> e, ids |-> ids,
   pc |-> "read", files |-> <<>>, sent |-> <<>>, code |-> 0]

Settled(t) == t.pc \in {"done", "failed"}

(* The upload call t moves on to u.  A settled call stays in the state while
   its finalize call is the latest one, which may await it; the settled calls
   of earlier finalize calls are awaited by nobody. *)
SetTask(c, t, u) ==
  [c EXCEPT !.tasks = (@ \ {t}) \cup (IF Settled(u) /\ u.attempt # c.attempts THEN {} ELSE {u})]

(* buildReportPayload and fetch(SUBMIT_ENDPOINT): the request is sent unless
   the payload cannot be built, which releases the guard.  The header of a
   fresh draft is empty and its only expense is blank: no payload. *)
BuildAndSend(c, n, reportId, store, payloadOk) ==
  IF payloadOk /\ c.expenses # <<>>
    THEN [c EXCEPT !.submitting = TRUE,
                   !.run = [n |-> n, pc |-> "submitSent", reportId |-> reportId,
                            queue |-> <<>>, code |-> 0, store |-> store],
                   !.sentBy = @ \cup {n}]
    ELSE [c EXCEPT !.submitting = FALSE, !.run = NoRun]

IsStaged(c, e) == c.pending[e] # {}

(* uploadPendingReceipts: one upload call per expense with pending files, all
   started before the first is awaited. *)
StartUploads(c, n, store) ==
  LET queue == SelectSeq(c.expenses, LAMBDA e : IsStaged(c, e))
  IN [c EXCEPT !.submitting = TRUE,
               !.tasks = @ \cup {NewTask(n, c.draftId, c.draftId, queue[i], c.pending[queue[i]])
                                   : i \in 1..Len(queue)},
               !.run = [n |-> n, pc |-> "uploading", reportId |-> c.draftId,
                        queue |-> queue, code |-> 0, store |-> store]]

(* applyFinalizeSuccessState: the draft goes to the history and a fresh one
   takes its place *)
applyFinalizeSuccessState(c, reportId) ==
  [c EXCEPT !.history = @ \cup {reportId},
            !.draftId = FreshDraft,
            !.expenses = <<>>,
            !.pending = [e \in ExternalIds |-> {}]]

(* finalizeSubmit, from the click to its first await or return.  It returns at
   once while the guard is held, for a draft that is in the history and, online,
   without an API key.  Offline it has no await: the payload is built and the
   draft is finalized locally, and the guard is released in the same turn. *)
finalizeSubmit(hasKey, payloadOk, maxAttempts) ==
  IF \/ client.submitting
     \/ client.draftId \in client.history
     \/ ~client.offlineOnly /\ ~hasKey
    THEN UNCHANGED vars
    ELSE /\ client.attempts < maxAttempts
         /\ LET c == [client EXCEPT !.attempts = @ + 1,
                                    !.tasks = {t \in @ : ~Settled(t)}]
            IN IF client.offlineOnly
                 THEN IF payloadOk /\ c.expenses # <<>>
                        THEN /\ client' = applyFinalizeSuccessState(c, c.draftId)
                             /\ draftStore' = clearReceiptsForDraft(draftStore, c.draftId)
                        ELSE /\ client' = c
                             /\ UNCHANGED draftStore
                 ELSE /\ client' = IF hasPendingReceiptUploads(c)
                                     THEN StartUploads(c, c.attempts, draftStore)
                                     ELSE BuildAndSend(c, c.attempts, c.draftId, draftStore,
                                                       payloadOk)
                      /\ UNCHANGED draftStore
         /\ UNCHANGED <<db, resp, inflight, prev, raced, objects>>

(* The stored receipts as the files of the multipart body, in the order of
   their ids. *)
RECURSIVE FormFiles(_)
FormFiles(stored) ==
  IF stored = {} THEN <<>>
  ELSE LET first == CHOOSE x \in stored : \A y \in stored : x.metadata.id <= y.metadata.id
       IN <<File(first.metadata.fileName, first.blob.type, first.blob.size)>>
            \o FormFiles(stored \ {first})

RECURSIVE FormIds(_)
FormIds(stored) ==
  IF stored = {} THEN <<>>
  ELSE LET first == CHOOSE x \in stored : \A y \in stored : x.metadata.id <= y.metadata.id
       IN <<first.metadata.id>> \o FormIds(stored \ {first})

(* getStoredReceipts has answered: without stored receipts the upload call
   throws, otherwise the request is sent. *)
UploadRead(t) ==
  LET stored == getStoredReceipts(draftStore, t.draftId, t.expenseId, Some(t.ids))
  IN /\ t.pc = "read"
     /\ client' = SetTask(client, t,
                    IF stored = {} THEN [t EXCEPT !.pc = "failed"]
                    ELSE [t EXCEPT !.pc = "sent", !.files = FormFiles(stored),
                                   !.sent = FormIds(stored)])
     /\ UNCHANGED <<db, resp, inflight, prev, raced, objects, draftStore>>

UploadRequestOf(t) ==
  [reportId |-> Some(t.reportId), expenseId |-> Some(t.expenseId), files |-> t.files,
   storageFaults |-> {}, fault |-> 0]

(* The server handles the upload request.  rowsOf is history: which Receipt
   row was created for which staged receipt. *)
ServerUpload(t, maxReceipts, maxObjects) ==
  /\ t.pc = "sent"
  /\ Upload(UploadRequestOf(t), maxReceipts, maxObjects)
  /\ client' = SetTask([client EXCEPT !.rowsOf = @ \cup
                          {[staged |-> t.sent[i], row |-> rc.id] :
                             <<i, rc>> \in {p \in (1..Len(t.sent)) \X (db'.receipts \ db.receipts) :
                                              p[2].id = Cardinality(db.receipts) + p[1]}}],
                        t, [t EXCEPT !.pc = "replied", !.code = resp'.code])

(* fetch rejects: the request or its answer is lost. *)
UploadLost(t) ==
  /\ t.pc \in {"sent", "replied"}
  /\ client' = SetTask(client, t, [t EXCEPT !.pc = "failed"])
  /\ UNCHANGED <<db, resp, inflight, prev, raced, objects, draftStore>>

UploadSettleKeepStaged(t) ==
  /\ t.pc = "replied"
  /\ client' = SetTask(client, t, [t EXCEPT !.pc = IF t.code = 201 THEN "done" ELSE "failed"])
  /\ UNCHANGED <<db, resp, inflight, prev, raced, objects, draftStore>>

(* The answer has arrived: an error answer makes the upload call throw, a
   success removes the uploaded receipts from the pending list and from the
   Draft Store. *)
UploadSettle(t) ==
  /\ t.pc = "replied"
  /\ IF t.code = 201
       THEN /\ client' = SetTask([client EXCEPT !.pending[t.expenseId] = {}], t,
                                 [t EXCEPT !.pc = "done"])
            /\ draftStore' = deleteReceipts(draftStore, client.draftId, t.expenseId, Some(t.ids))
       ELSE /\ client' = SetTask(client, t, [t EXCEPT !.pc = "failed"])
            /\ UNCHANGED draftStore
  /\ UNCHANGED <<db, resp, inflight, prev, raced, objects>>

TaskOf(c, n, e) == CHOOSE t \in c.tasks : t.attempt = n /\ t.expenseId = e

OpenUploads(c) ==
  {i \in 1..Len(c.run.queue) : TaskOf(c, c.run.n, c.run.queue[i]).pc # "done"}

AwaitUploadsIgnoreFailures(payloadOk) ==
  /\ client.run.pc = "uploading"
  /\ \A i \in 1..Len(client.run.queue) : Settled(TaskOf(client, client.run.n, client.run.queue[i]))
  /\ client' = BuildAndSend(client, client.run.n, client.run.reportId, client.run.store, payloadOk)
  /\ UNCHANGED <<db, resp, inflight, prev, raced, objects, draftStore>>

AwaitUploadsKeepGuard(payloadOk) ==
  LET run == client.run
      open == OpenUploads(client)
      first == CHOOSE i \in open : \A j \in open : i <= j
  IN /\ run.pc = "uploading"
     /\ IF open = {}
          THEN client' = BuildAndSend(client, run.n, run.reportId, run.store, payloadOk)
          ELSE /\ TaskOf(client, run.n, run.queue[first]).pc = "failed"
               /\ client' = [client EXCEPT !.run = NoRun]
     /\ UNCHANGED <<db, resp, inflight, prev, raced, objects, draftStore>>

(* for (const upload of uploads) await upload: the first upload call that has
   not succeeded decides; a failed one aborts the run and releases the guard,
   and when all have succeeded the report is submitted. *)
AwaitUploads(payloadOk) ==
  LET run == client.run
      open == OpenUploads(client)
      first == CHOOSE i \in open : \A j \in open : i <= j
  IN /\ run.pc = "uploading"
     /\ IF open = {}
          THEN client' = BuildAndSend(client, run.n, run.reportId, run.store, payloadOk)
          ELSE /\ TaskOf(client, run.n, run.queue[first]).pc = "failed"
               /\ client' = [client EXCEPT !.submitting = FALSE, !.run = NoRun]
     /\ UNCHANGED <<db, resp, inflight, prev, raced, objects, draftStore>>

SubmitRequestOf(c) ==
  [reportId |-> c.run.reportId, wellFormed |-> TRUE, managerEmail |-> Some(<<"m">>),
   expenses |-> [i \in 1..Len(c.expenses) |-> Some(c.expenses[i])], fault |-> 0,
   employeeEmail |-> <<"a">>, finalizedAt |-> 3]

(* The server handles the report submission. *)
ServerSubmit ==
  /\ client.run.pc = "submitSent"
  /\ Submit(SubmitRequestOf(client))
  /\ client' = [client EXCEPT !.run.pc = "submitReplied", !.run.code = resp'.code]

(* fetch rejects: the request or its answer is lost; the guard is released. *)
SubmitLost ==
  /\ client.run.pc \in {"submitSent", "submitReplied"}
  /\ client' = [client EXCEPT !.submitting = FALSE, !.run = NoRun]
  /\ UNCHANGED <<db, resp, inflight, prev, raced, objects, draftStore>>

(* The answer has arrived: applyFinalizeSuccessState on success; the guard is
   released either way. *)
SubmitSettle ==
  /\ client.run.pc = "submitReplied"
  /\ IF client.run.code = 201
       THEN /\ client' = [applyFinalizeSuccessState(client, client.run.reportId)
                             EXCEPT !.submitting = FALSE, !.run = NoRun]
            /\ draftStore' = clearReceiptsForDraft(draftStore, client.draftId)
       ELSE /\ client' = [client EXCEPT !.submitting = FALSE, !.run = NoRun]
            /\ UNCHANGED draftStore
  /\ UNCHANGED <<db, resp, inflight, prev, raced, objects>>

----------------------------------------------------------------------------
(* Specifications.  Every one starts from the empty store. *)

Init ==
  /\ db = EmptyDb
  /\ resp = NoResponse
  /\ inflight = [i \in Slots |-> FreeSlot]
  /\ prev = EmptyDb
  /\ objects = {}
  /\ draftStore = EmptyStore("indexedDB")
  /\ client = InitialClient
  /\ raced = FALSE

NoteInputs == {Null, Some(<<>>), Some(<<" ">>), Some(<<" ", "a", " ">>)}
OneExpense == {<<Some("e1")>>}
Faults == 1..4

(* The approval workflow, requests handled one after the other: both reports,
   an admin who may act on the manager stage only and one who may act on both. *)
WorkflowUsers == {"mia", "cleo"}

DoSubmit == \E req \in SubmitRequests(ReportIds, OneExpense, Faults) : Submit(req) /\ UNCHANGED client
DoDecide ==
  \E req \in DecisionRequests(WorkflowUsers, ReportIds, NoteInputs, Faults) : Decide(req) /\ UNCHANGED client

Next == DoSubmit \/ DoDecide

Spec == Init /\ [][Next]_vars

(* The same with an admin of every role, on one report. *)
RolesSubmit == \E req \in SubmitRequests({"r1"}, OneExpense, {}) : Submit(req) /\ UNCHANGED client
RolesDecide ==
  \E req \in DecisionRequests(Users, {"r1"}, {Null, Some(<<"a">>)}, {}) : Decide(req) /\ UNCHANGED client

NextRoles == RolesSubmit \/ RolesDecide

SpecRoles == Init /\ [][NextRoles]_vars

(* Listing: both reports, decided by one admin, listed by every admin. *)
ListSubmit == \E req \in SubmitRequests(ReportIds, OneExpense, {}) : Submit(req) /\ UNCHANGED client
ListDecide == \E req \in DecisionRequests({"sue"}, ReportIds, {Null}, {}) : Decide(req) /\ UNCHANGED client
DoList == \E req \in ListRequests(Users) : List(req) /\ UNCHANGED client

NextList == ListSubmit \/ ListDecide \/ DoList

SpecList == Init /\ [][NextList]_vars

(* Submission: one report with every list of expenses, then decided. *)
FullSubmit ==
  \E req \in SubmitRequests({"r1"}, ExpenseLists(ExternalIds, MaxExpenses), Faults) : Submit(req) /\ UNCHANGED client
SubmitDecide == \E req \in DecisionRequests({"sue"}, {"r1"}, {Null}, {}) : Decide(req) /\ UNCHANGED client

NextSubmit == FullSubmit \/ SubmitDecide

SpecSubmit == Init /\ [][NextSubmit]_vars

(* Concurrent decisions on one report. *)
ConcSubmit == \E req \in SubmitRequests({"r1"}, OneExpense, {}) : Submit(req) /\ UNCHANGED client
ConcBegin ==
  \E i \in Slots : \E req \in DecisionRequests({"sue"}, {"r1"}, {Null}, {}) : DecideBegin(i, req) /\ UNCHANGED client
ConcCommit == \E i \in Slots : DecideCommit(i) /\ UNCHANGED client

NextConc == ConcSubmit \/ ConcBegin \/ ConcCommit

SpecConc == Init /\ [][NextConc]_vars

(* Receipts: one report, receipts uploaded before and after its submission,
   and the manager's decision. *)
MaxReceipts == 2
MaxObjects == 3

PdfMime == <<"application", "/", "pdf">>
Pdf == File("a.pdf", PdfMime, 1)
Png == File("b.png", <<"image", "/", "png">>, 2)
Txt == File("c.txt", <<"text", "/", "plain">>, 1)
Untyped == File("e", <<>>, 1)
Big == File("d.pdf", PdfMime, 11 * 1024 * 1024)

GoodFileLists == {<<Pdf>>, <<Pdf, Png>>}
ReceiptExpenseLists == {<<Some("e1")>>, <<Some("e1"), Null>>}
BadFileLists ==
  {<<Txt>>, <<Untyped>>, <<Pdf, Big>>, <<Big, Txt>>, <<>>,
   <<Pdf, Pdf, Pdf, Pdf, Pdf, Big>>}
BadUploads ==
        [reportId : {Some("r1")}, expenseId : {Some("e1")}, files : BadFileLists,
         storageFaults : {{}}, fault : {0}]
   \cup [reportId : {Null}, expenseId : {Some("e1")}, files : {<<Txt>>, <<Big>>},
         storageFaults : {{}}, fault : {0}]
   \cup [reportId : {Some("r1")}, expenseId : {Null}, files : {<<Pdf>>},
         storageFaults : {{}}, fault : {0}]

ReceiptUploads == UploadRequests({"r1"}, ExternalIds, GoodFileLists, BadUploads)

ReceiptsSubmit == \E req \in SubmitRequests({"r1"}, ReceiptExpenseLists, {}) : Submit(req) /\ UNCHANGED client
ReceiptsUpload == \E req \in ReceiptUploads : Upload(req, MaxReceipts, MaxObjects) /\ UNCHANGED client
ReceiptsDecide == \E req \in DecisionRequests({"mia"}, {"r1"}, {Null}, {}) : Decide(req) /\ UNCHANGED client

NextReceipts == ReceiptsSubmit \/ ReceiptsUpload \/ ReceiptsDecide

SpecReceipts == Init /\ [][NextReceipts]_vars

(* The export: a report of each of two employees, finalized at noon of the
   first day (the first report only) or at midnight of the second, decided at
   both stages, receipts uploaded for the first report, and the queries of
   finance. *)
MaxExported == 2

ExportSubmissions ==
        [reportId : {"r1"}, wellFormed : {TRUE}, managerEmail : {Some(<<"m">>)},
         expenses : OneExpense, fault : {0}, employeeEmail : {<<"M">>}, finalizedAt : {3, 4}]
   \cup [reportId : {"r2"}, wellFormed : {TRUE}, managerEmail : {Some(<<"m">>)},
         expenses : OneExpense, fault : {0}, employeeEmail : {<<"a">>}, finalizedAt : {4}]
ExportUploads ==
  [reportId : {Some("r1")}, expenseId : {Some("e1")}, files : {<<Pdf>>},
   storageFaults : {{}}, fault : {0}]
ExportDates == {Some("2024-03-01"), Some("2024-03-02"), Some("2024-03-02T12:00:00Z")}
ExportBadDates == {Null, Some(""), Some("soon")}
ExportFilters ==
  {Null, Some(<<"M">>), Some(<<"a">>), Some(<<" ", ",">>), Some(<<"z", ",", " ", "m", " ">>)}
UrlFaults == [receipt : {1, 2}, how : {"nothing", "throws"}]
ExportQueries == ExportRequests({"finn"}, ExportDates, ExportBadDates, ExportFilters, UrlFaults)

ExportSubmit == \E req \in ExportSubmissions : Submit(req) /\ UNCHANGED client
ExportDecide ==
  \E req \in DecisionRequests({"sue"}, ReportIds, {Null}, {}) : Decide(req) /\ UNCHANGED client
ExportUpload == \E req \in ExportUploads : Upload(req, MaxExported, MaxExported) /\ UNCHANGED client
DoExport == \E req \in ExportQueries : Export(req) /\ UNCHANGED client

NextExport == ExportSubmit \/ ExportDecide \/ ExportUpload \/ DoExport

SpecExport == Init /\ [][NextExport]_vars

(* The Draft Store on its own, in either strategy: two drafts, two expenses
   (the id of one sorts after '\uffff'), calls made one after the other. *)
MaxStaged == 3

FileA == Blob("a.pdf", PdfMime, 1, "A")
FileB == Blob("", <<>>, 2, "B")
DraftFileLists == {<<>>, <<FileA>>, <<FileA, FileB>>}
DraftExpenseIds == {"e1", "uffff-x"}
ReceiptIdLists == {Null} \cup {Some(ids) : ids \in SUBSET StoredIds(draftStore)}

InitDraft ==
  /\ db = EmptyDb
  /\ resp = NoResponse
  /\ inflight = [i \in Slots |-> FreeSlot]
  /\ prev = EmptyDb
  /\ raced = FALSE
  /\ objects = {}
  /\ draftStore \in {EmptyStore(strategy) : strategy \in Strategies}
  /\ client = InitialClient

DoDraftSave ==
  \E d \in ReportIds, e \in DraftExpenseIds, files \in DraftFileLists :
    DraftSave(d, e, files, MaxStaged)
DoDraftGet ==
  \E d \in ReportIds, e \in DraftExpenseIds, ids \in ReceiptIdLists : DraftGet(d, e, ids)
DoDraftDelete ==
  \E d \in ReportIds, e \in DraftExpenseIds, ids \in ReceiptIdLists : DraftDelete(d, e, ids)
DoDraftClear == \E d \in ReportIds : DraftClear(d)
DoDraftList == \E d \in ReportIds : DraftList(d)

NextDraft == DoDraftSave \/ DoDraftGet \/ DoDraftDelete \/ DoDraftClear \/ DoDraftList

SpecDraft == InitDraft /\ [][NextDraft]_vars

(* Both strategies of the Draft Store given the same calls. *)
DoPairSave ==
  \E d \in ReportIds, e \in DraftExpenseIds, files \in DraftFileLists :
    PairSave(d, e, files, MaxStaged)
DoPairGet ==
  \E d \in ReportIds, e \in DraftExpenseIds, ids \in ReceiptIdLists : PairGet(d, e, ids)
DoPairDelete ==
  \E d \in ReportIds, e \in DraftExpenseIds, ids \in ReceiptIdLists : PairDelete(d, e, ids)
DoPairClear == \E d \in ReportIds : PairClear(d)
DoPairList == \E d \in ReportIds : PairList(d)

NextPair == DoPairSave \/ DoPairGet \/ DoPairDelete \/ DoPairClear \/ DoPairList

SpecPair == Init /\ [][NextPair]_vars

(* The file-tree strategy with calls cut short. *)
CrashExpenseIds == {"e1", "e2"}
CrashFileLists == {<<FileA>>, <<FileA, FileB>>}

InitCrash ==
  /\ db = EmptyDb
  /\ resp = NoResponse
  /\ inflight = [i \in Slots |-> FreeSlot]
  /\ prev = EmptyDb
  /\ raced = FALSE
  /\ objects = {}
  /\ draftStore = EmptyStore("fileSystem")
  /\ client = InitialClient

DoFsSaveCall ==
  \E e \in CrashExpenseIds, files \in CrashFileLists : FsSaveCall("r1", e, files, MaxStaged)
DoFsDeleteCall ==
  \E e \in CrashExpenseIds, ids \in ReceiptIdLists : FsDeleteCall("r1", e, ids)
DoFsClear == FsClear("r1")

NextCrash ==
  \/ DoFsSaveCall
  \/ FsSaveStep
  \/ DoFsDeleteCall
  \/ FsDeleteStep
  \/ DoFsClear
  \/ FsCrash

SpecCrash == InitCrash /\ [][NextCrash]_vars

(* The client finalizing its draft against the server. *)
MaxAttempts == 3
MaxAttached == 2

ClientAttach == \E e \in ExternalIds : Attach(e, <<FileA>>, MaxAttached)
ClientFinalize == \E hasKey, payloadOk \in BOOLEAN : finalizeSubmit(hasKey, payloadOk, MaxAttempts)
ClientUploadRead == \E t \in client.tasks : UploadRead(t)
ClientServerUpload == \E t \in client.tasks : ServerUpload(t, MaxReceipts, MaxObjects)
ClientUploadLost == \E t \in client.tasks : UploadLost(t)
ClientUploadSettle == \E t \in client.tasks : UploadSettle(t)
ClientAwaitUploads == \E payloadOk \in BOOLEAN : AwaitUploads(payloadOk)

NextClient ==
  \/ ClientAttach
  \/ ClientFinalize
  \/ ClientUploadRead
  \/ ClientServerUpload
  \/ ClientUploadLost
  \/ ClientUploadSettle
  \/ ClientAwaitUploads
  \/ ServerSubmit
  \/ SubmitLost
  \/ SubmitSettle

SpecClient == Init /\ [][NextClient]_vars

(* The finalize operation to its end, on a page that is online or offline
   only.  What the user does (attaching, clicking) may or may not happen; what
   the page and the network do happens in the end: a read of the Draft Store
   completes, a request that was sent is answered or fails, an answer that
   arrived is handled, and a call waiting for settled uploads goes on. *)
MaxLiveAttempts == 2
MaxLiveAttached == 2

InitLive ==
  /\ db = EmptyDb
  /\ resp = NoResponse
  /\ inflight = [i \in Slots |-> FreeSlot]
  /\ prev = EmptyDb
  /\ objects = {}
  /\ draftStore = EmptyStore("indexedDB")
  /\ \E offlineOnly \in BOOLEAN : client = [InitialClient EXCEPT !.offlineOnly = offlineOnly]
  /\ raced = FALSE

LiveAttach == \E e \in ExternalIds : Attach(e, <<FileA>>, MaxLiveAttached)
LiveFinalize ==
  \E hasKey, payloadOk \in BOOLEAN : finalizeSubmit(hasKey, payloadOk, MaxLiveAttempts)

NextLive ==
  \/ LiveAttach
  \/ LiveFinalize
  \/ ClientUploadRead
  \/ ClientServerUpload
  \/ ClientUploadLost
  \/ ClientUploadSettle
  \/ ClientAwaitUploads
  \/ ServerSubmit
  \/ SubmitLost
  \/ SubmitSettle

SpecLive ==
  /\ InitLive
  /\ [][NextLive]_vars
  /\ WF_vars(ClientUploadRead)
  /\ WF_vars(ClientServerUpload \/ ClientUploadLost)
  /\ WF_vars(ClientUploadSettle)
  /\ WF_vars(ClientAwaitUploads)
  /\ WF_vars(ServerSubmit \/ SubmitLost)
  /\ WF_vars(SubmitSettle)

----------------------------------------------------------------------------
(* Properties *)

StatusOf(d, r) == ReportRow(d, r).status
ManagerApproval(d, r) == ApprovalRow(d, r, "MANAGER")
FinanceApproval(d, r) == ApprovalRow(d, r, "FINANCE")

(* The last request was a decision that got past validation and authorization. *)
DecisionReached == resp.op = "decide" /\ resp.code \notin {400, 401, 403}

AllowedTransitions ==
  {<<"SUBMITTED", "MANAGER_APPROVED">>, <<"SUBMITTED", "REJECTED">>,
   <<"MANAGER_APPROVED", "FINANCE_APPROVED">>, <<"MANAGER_APPROVED", "REJECTED">>}
TerminalStatuses == {"FINANCE_APPROVED", "REJECTED"}

(* C1: over any sequence of decide calls a report's status moves only along
   SUBMITTED->MANAGER_APPROVED, SUBMITTED->REJECTED, MANAGER_APPROVED->FINANCE_APPROVED
   or MANAGER_APPROVED->REJECTED; once it is FINANCE_APPROVED or REJECTED no decide
   call on the report succeeds and its row and approvals stay as they are. *)
C1_StatusTransitions ==
  \A r \in ReportIds :
    HasReport(prev, r) =>
      /\ HasReport(db, r)
      /\ \/ StatusOf(db, r) = StatusOf(prev, r)
         \/ <<StatusOf(prev, r), StatusOf(db, r)>> \in AllowedTransitions
      /\ StatusOf(prev, r) \in TerminalStatuses =>
           /\ ReportRow(db, r) = ReportRow(prev, r)
           /\ ApprovalRows(db, r) = ApprovalRows(prev, r)
           /\ (resp.op = "decide" /\ resp.reportId = r) => resp.code # 200

(* A decision was refused on a report that is FINANCE_APPROVED while the other
   report had been rejected. *)
C1_Witness ==
  /\ resp.op = "decide" /\ resp.code = 409
  /\ HasReport(db, resp.reportId) /\ StatusOf(db, resp.reportId) = "FINANCE_APPROVED"
  /\ \E r \in ReportIds : HasReport(db, r) /\ StatusOf(db, r) = "REJECTED"

(* C2: in every committed state the report status agrees with the two approval
   rows: SUBMITTED iff MANAGER is PENDING, MANAGER_APPROVED iff MANAGER is APPROVED
   and FINANCE is PENDING, FINANCE_APPROVED iff both are APPROVED, REJECTED iff one
   of them is REJECTED; this also after decisions that failed at a statement. *)
C2_StatusAgreesWithApprovals ==
  \A r \in ReportIds :
    HasReport(db, r) =>
      LET st == StatusOf(db, r)
          m == ManagerApproval(db, r).status
          f == FinanceApproval(db, r).status
      IN /\ HasApproval(db, r, "MANAGER") /\ HasApproval(db, r, "FINANCE")
         /\ st = "SUBMITTED" <=> m = "PENDING"
         /\ st = "MANAGER_APPROVED" <=> (m = "APPROVED" /\ f = "PENDING")
         /\ st = "FINANCE_APPROVED" <=> (m = "APPROVED" /\ f = "APPROVED")
         /\ st = "REJECTED" <=> (m = "REJECTED" \/ f = "REJECTED")

(* A finance decision failed at one of its statements and was rolled back. *)
C2_Witness ==
  /\ resp.op = "decide" /\ resp.code = 500 /\ resp.stage = "FINANCE"
  /\ HasReport(db, resp.reportId) /\ StatusOf(db, resp.reportId) = "MANAGER_APPROVED"

(* C4: a well-formed FINANCE-stage decide call by a permitted admin, made while
   the MANAGER approval of the report is not APPROVED, fails with 409 and leaves
   the store as it was; a report that is FINANCE_APPROVED has a MANAGER approval
   that was decided, as APPROVED, before the FINANCE one. *)
C4_FinanceNeedsManagerApproval ==
  /\ (/\ DecisionReached /\ resp.stage = "FINANCE"
      /\ HasReport(prev, resp.reportId)
      /\ ManagerApproval(prev, resp.reportId).status # "APPROVED")
       => (resp.code = 409 /\ db = prev)
  /\ \A r \in ReportIds :
       (HasReport(db, r) /\ StatusOf(db, r) = "FINANCE_APPROVED") =>
         /\ ManagerApproval(db, r).status = "APPROVED"
         /\ ManagerApproval(db, r).decidedAt # Null
         /\ FinanceApproval(db, r).decidedAt # Null
         /\ ManagerApproval(db, r).decidedAt[1] < FinanceApproval(db, r).decidedAt[1]

(* A FINANCE decision was refused on a report whose MANAGER approval is still
   PENDING, while the other report had gone through both stages. *)
C4_Witness ==
  /\ resp.op = "decide" /\ resp.code = 409 /\ resp.stage = "FINANCE"
  /\ HasReport(db, resp.reportId)
  /\ ManagerApproval(db, resp.reportId).status = "PENDING"
  /\ \E r \in ReportIds : HasReport(db, r) /\ StatusOf(db, r) = "FINANCE_APPROVED"

(* C5: a well-formed decide call by a permitted admin on a stage whose approval
   is already APPROVED or REJECTED fails with 409 and leaves the report and both
   approval rows, decidedBy, decidedAt and note included, as they were. *)
C5_DecidedStageConflicts ==
  (/\ DecisionReached /\ resp.stage \in Stages
   /\ HasReport(prev, resp.reportId)
   /\ ApprovalRow(prev, resp.reportId, resp.stage).status # "PENDING")
    => /\ resp.code = 409
       /\ ReportRow(db, resp.reportId) = ReportRow(prev, resp.reportId)
       /\ ApprovalRows(db, resp.reportId) = ApprovalRows(prev, resp.reportId)
       /\ db = prev

(* A MANAGER decision was refused on a report whose MANAGER approval had been
   REJECTED with a note. *)
C5_Witness ==
  /\ resp.op = "decide" /\ resp.code = 409 /\ resp.stage = "MANAGER"
  /\ HasReport(db, resp.reportId)
  /\ ManagerApproval(db, resp.reportId).status = "REJECTED"
  /\ ManagerApproval(db, resp.reportId).note # Null

(* The note a decision is expected to store: the given text without the blanks
   around it, or none when no text or only blanks were given. *)
IsBlank(text) == \A i \in 1..Len(text) : text[i] = " "
FirstInk(text) == CHOOSE i \in 1..Len(text) : text[i] # " " /\ \A j \in 1..(i - 1) : text[j] = " "
LastInk(text) == CHOOSE i \in 1..Len(text) : text[i] # " " /\ \A j \in (i + 1)..Len(text) : text[j] = " "
StrippedNote(note) ==
  IF note = Null \/ IsBlank(note[1]) THEN Null
  ELSE Some(SubSeq(note[1], FirstInk(note[1]), LastInk(note[1])))

DecisionEffect(req, note) ==
  LET row == ApprovalRow(db', req.reportId, req.stage)
  IN /\ row.status = (IF req.action = "approve" THEN "APPROVED" ELSE "REJECTED")
     /\ row.decidedBy = req.user
     /\ row.note = note
     /\ StatusOf(db', req.reportId) =
          (CASE req.action = "reject" -> "REJECTED"
             [] req.action = "approve" /\ req.stage = "MANAGER" -> "MANAGER_APPROVED"
             [] req.action = "approve" /\ req.stage = "FINANCE" -> "FINANCE_APPROVED")

(* The step is a successful decision; the requests it may have been handling. *)
DecisionSucceeds == resp'.op = "decide" /\ resp'.code = 200
Handled(req) ==
  resp'.reportId = req.reportId /\ resp'.stage = req.stage /\ Decide(req)

(* C6 as stated: a successful decide sets the stage's approval to APPROVED or
   REJECTED with decidedBy = actor and the note exactly as given, and the report
   status to MANAGER_APPROVED, FINANCE_APPROVED or REJECTED. *)
C6_Original ==
  [][DecisionSucceeds =>
       \A req \in DecisionRequests(WorkflowUsers, ReportIds, NoteInputs, {}) :
         Handled(req) => DecisionEffect(req, req.note)]_vars

(* C6 amended: the same with the note stored without the blanks around it, and
   no note stored when none or only blanks were given. *)
C6_DecisionEffect ==
  [][DecisionSucceeds =>
       \A req \in DecisionRequests(WorkflowUsers, ReportIds, NoteInputs, {}) :
         Handled(req) => DecisionEffect(req, StrippedNote(req.note))]_vars

(* A FINANCE rejection with a note went through. *)
C6_Witness ==
  /\ resp.op = "decide" /\ resp.code = 200 /\ resp.stage = "FINANCE"
  /\ FinanceApproval(db, resp.reportId).status = "REJECTED"
  /\ FinanceApproval(db, resp.reportId).note = Some(<<"a">>)
  /\ FinanceApproval(db, resp.reportId).decidedBy = Some("cleo")

(* C3 as stated: of two decide calls for the same report and stage that run
   concurrently at most one succeeds.  raced says that a call of the same report
   and stage committed successfully while the call just committed was in flight. *)
C3_Original == ~(resp.op = "decide" /\ resp.code = 200 /\ raced)

(* C3 amended: the PENDING check refuses, with 409 and no change, a call that
   reads the approval after the other call has committed; a call succeeds on an
   approval that is no longer PENDING only if it had read it before the other
   committed, and then the later commit overwrites the earlier decision: the
   approval row and the report status are those of the call that committed last. *)
C3_LastCommitWins ==
  [][/\ (/\ resp'.op = "decide" /\ resp'.code \notin {400, 401, 403}
         /\ inflight' = inflight
         /\ HasReport(db, resp'.reportId)
         /\ ApprovalRow(db, resp'.reportId, resp'.stage).status # "PENDING")
          => (resp'.code = 409 /\ db' = db)
     /\ (/\ DecisionSucceeds
         /\ ApprovalRow(db, resp'.reportId, resp'.stage).status # "PENDING")
          => raced'
     /\ \A i \in Slots :
          (DecisionSucceeds /\ DecideCommit(i)) =>
            DecisionEffect(inflight[i].req, StrippedNote(inflight[i].req.note))]_vars

(* Two calls of the same stage read the PENDING approval, both committed, and
   the second turned the first one's approval into a rejection. *)
C3_Witness ==
  /\ resp.op = "decide" /\ resp.code = 200 /\ raced
  /\ HasReport(prev, resp.reportId)
  /\ ApprovalRow(prev, resp.reportId, resp.stage).status = "APPROVED"
  /\ ApprovalRow(db, resp.reportId, resp.stage).status = "REJECTED"

(* C7: every successful MANAGER-stage decision leaves the FINANCE approval of
   the report PENDING with decidedBy, decidedAt and note cleared, also when the
   FINANCE approval had been decided; after a manager rejection the report is
   REJECTED, MANAGER is REJECTED and FINANCE is PENDING. *)
C7_ManagerDecisionResetsFinance ==
  (resp.op = "decide" /\ resp.code = 200 /\ resp.stage = "MANAGER") =>
    /\ FinanceApproval(db, resp.reportId).status = "PENDING"
    /\ FinanceApproval(db, resp.reportId).decidedBy = Null
    /\ FinanceApproval(db, resp.reportId).decidedAt = Null
    /\ FinanceApproval(db, resp.reportId).note = Null
    /\ ManagerApproval(db, resp.reportId).status = "REJECTED" =>
         StatusOf(db, resp.reportId) = "REJECTED"

(* A MANAGER rejection committed on a report whose FINANCE approval had
   already been decided. *)
C7_Witness ==
  /\ resp.op = "decide" /\ resp.code = 200 /\ resp.stage = "MANAGER"
  /\ HasReport(prev, resp.reportId)
  /\ FinanceApproval(prev, resp.reportId).status = "APPROVED"
  /\ ManagerApproval(db, resp.reportId).status = "REJECTED"

PermittedRoles(stage) ==
  IF stage = "MANAGER" THEN {"MANAGER", "ANALYST", "CFO", "SUPER"}
  ELSE {"CFO", "SUPER", "FINANCE"}

(* C8: a well-formed decide call by an admin whose role is not among those
   permitted for the stage (MANAGER stage: MANAGER, ANALYST, CFO, SUPER; FINANCE
   stage: CFO, SUPER, FINANCE) is answered 403 and changes nothing, whatever the
   state of the report; the permitted roles are never answered 403. *)
C8_RoleNotPermitted ==
  [][resp'.op = "decide" =>
       \A req \in DecisionRequests(Users, {"r1"}, {Null, Some(<<"a">>)}, {}) :
         (req.user # Null /\ req.stage \in Stages /\ req.action \in Actions /\ Handled(req)) =>
           IF RoleOf(req.user[1]) \in PermittedRoles(req.stage)
             THEN resp'.code # 403
             ELSE resp'.code = 403 /\ db' = db]_vars

(* A FINANCE decision was refused for lack of role on a report that was
   waiting for the FINANCE decision. *)
C8_Witness ==
  /\ resp.op = "decide" /\ resp.code = 403 /\ resp.stage = "FINANCE"
  /\ HasReport(db, resp.reportId) /\ StatusOf(db, resp.reportId) = "MANAGER_APPROVED"
  /\ db = prev

ImpliedStatus(stage, q) ==
  CASE q = "rejected" -> "REJECTED"
    [] stage = "MANAGER" /\ q = "pending" -> "SUBMITTED"
    [] stage = "MANAGER" /\ q = "approved" -> "MANAGER_APPROVED"
    [] stage = "FINANCE" /\ q = "pending" -> "MANAGER_APPROVED"
    [] stage = "FINANCE" /\ q = "approved" -> "FINANCE_APPROVED"

ReportsWithStatus(st) == {r \in ReportIds : HasReport(db, r) /\ StatusOf(db, r) = st}

(* C9 as stated: list(stage, status) returns exactly the reports whose status
   is the one implied by the combination, REJECTED for rejected at either stage. *)
C9_Original ==
  (resp.op = "list" /\ resp.code = 200) =>
    resp.reports = ReportsWithStatus(ImpliedStatus(resp.stage, resp.query))

(* C9 amended: for pending and approved the listing is exactly the reports with
   the implied status; for rejected it is exactly the REJECTED reports whose
   approval of the requested stage is REJECTED, so a report rejected at the other
   stage is not listed. *)
C9_ListingMatchesStatus ==
  (resp.op = "list" /\ resp.code = 200) =>
    IF resp.query = "rejected"
      THEN resp.reports =
             {r \in ReportsWithStatus("REJECTED") :
                ApprovalRow(db, r, resp.stage).status = "REJECTED"}
      ELSE resp.reports = ReportsWithStatus(ImpliedStatus(resp.stage, resp.query))

(* The MANAGER-stage rejected listing returned one REJECTED report and left out
   the one that was rejected at the FINANCE stage. *)
C9_Witness ==
  /\ resp.op = "list" /\ resp.code = 200 /\ resp.stage = "MANAGER" /\ resp.query = "rejected"
  /\ resp.reports # {}
  /\ ReportsWithStatus("REJECTED") \ resp.reports # {}

(* A submission the server has no reason to refuse. *)
ValidSubmission(req) ==
  /\ req.wellFormed
  /\ req.managerEmail # Null /\ ~IsBlank(req.managerEmail[1])
  /\ ~HasReport(db, req.reportId)
  /\ \A i, j \in 1..Len(req.expenses) :
       (i # j /\ req.expenses[i] # Null) => req.expenses[i] # req.expenses[j]
  /\ req.fault = 0

TwoApprovals(d, r) ==
  /\ Cardinality(ApprovalRows(d, r)) = 2
  /\ {row.stage : row \in ApprovalRows(d, r)} = Stages

(* C10: after a valid submission there is exactly one Report row for the
   reportId, with status SUBMITTED, one Expense row per submitted expense, and
   exactly two Approval rows, one MANAGER and one FINANCE, both PENDING; every
   report keeps exactly these two Approval rows through every later request. *)
C10_SubmissionCreatesRows ==
  [][/\ resp'.op = "submit" =>
          \A req \in SubmitRequests({"r1"}, ExpenseLists(ExternalIds, MaxExpenses), Faults) :
            (ValidSubmission(req) /\ Submit(req)) =>
              /\ resp'.code = 201
              /\ Cardinality({row \in db'.reports : row.reportId = req.reportId}) = 1
              /\ StatusOf(db', req.reportId) = "SUBMITTED"
              /\ Cardinality(ExpenseRows(db', req.reportId)) = Len(req.expenses)
              /\ \A i \in 1..Len(req.expenses) :
                   Cardinality({row \in ExpenseRows(db', req.reportId) :
                                  row.externalId = req.expenses[i]})
                     = Cardinality({j \in 1..Len(req.expenses) : req.expenses[j] = req.expenses[i]})
              /\ TwoApprovals(db', req.reportId)
              /\ \A row \in ApprovalRows(db', req.reportId) :
                   row = NewApproval(req.reportId, row.stage)
     /\ \A r \in ReportIds :
          /\ HasReport(db', r) => TwoApprovals(db', r)
          /\ HasReport(db, r) => HasReport(db', r)
          /\ ~HasReport(db', r) => ApprovalRows(db', r) = {}]_vars

(* A report submitted with two expenses, one of them without a client id. *)
C10_Witness ==
  /\ resp.op = "submit" /\ resp.code = 201
  /\ Cardinality(ExpenseRows(db, resp.reportId)) = 2
  /\ \E row \in ExpenseRows(db, resp.reportId) : row.externalId = Null
  /\ TwoApprovals(db, resp.reportId)

----------------------------------------------------------------------------
(* Duplicate submission *)

AcceptableBody(req) ==
  req.wellFormed /\ req.managerEmail # Null /\ ~IsBlank(req.managerEmail[1])

(* C11: a submission with an acceptable body whose reportId is already used is
   answered 409 and changes nothing: every table, the first report's status and
   approvals included, and the stored objects are as before. *)
C11_DuplicateSubmission ==
  [][(resp'.op = "submit" /\ HasReport(db, resp'.reportId)) =>
       \A req \in SubmitRequests({"r1"}, ReceiptExpenseLists, {}) :
         (AcceptableBody(req) /\ Submit(req)) =>
           /\ resp'.code = 409
           /\ db' = db
           /\ objects' = objects]_vars

(* A second submission refused when the first report has been approved by the
   manager and has a receipt. *)
C11_Witness ==
  /\ resp.op = "submit" /\ resp.code = 409
  /\ HasReport(db, resp.reportId)
  /\ StatusOf(db, resp.reportId) = "MANAGER_APPROVED"
  /\ ReceiptRows(db, resp.reportId) # {}

----------------------------------------------------------------------------
(* Receipts and their expenses *)

(* The expenses of report r that carry the client id c. *)
ExpensesWithExternalId(d, r, c) == {e \in ExpenseRows(d, r) : e.externalId = Some(c)}

(* The request passes every check of the upload handler and neither the storage
   provider nor the database fails. *)
CleanUpload(req) == UploadCheck(req) = 0 /\ req.storageFaults = {} /\ req.fault = 0

UploadHandled(req) == resp'.reportId = req.reportId[1] /\ Upload(req, MaxReceipts, MaxObjects)

(* C14 as stated: an upload that passes the checks succeeds although no Report
   row exists for its reportId: it is answered 201, every file is stored and one
   Receipt row per file is created with that reportId, the client expense id and
   a null expenseId. *)
C14_Original ==
  [][(resp'.op = "upload" /\ resp'.reportId # "-" /\ ~HasReport(db, resp'.reportId)) =>
       \A req \in ReceiptUploads :
         (CleanUpload(req) /\ UploadHandled(req)) =>
           /\ resp'.code = 201
           /\ Cardinality(objects') = Cardinality(objects) + Len(req.files)
           /\ Cardinality(db'.receipts) = Cardinality(db.receipts) + Len(req.files)
           /\ \A rc \in db'.receipts \ db.receipts :
                /\ rc.reportId = req.reportId[1]
                /\ rc.clientExpenseId = req.expenseId[1]
                /\ rc.expenseId = Null]_vars

(* C13 as stated: once report R is submitted, every Receipt row of R whose
   clientExpenseId is the externalId of an Expense of R has that Expense's id as
   its expenseId, and the other Receipt rows of R have a null expenseId. *)
C13_Original ==
  \A r \in ReportIds :
    HasReport(db, r) =>
      \A rc \in ReceiptRows(db, r) :
        IF ExpensesWithExternalId(db, r, rc.clientExpenseId) # {}
          THEN \E e \in ExpensesWithExternalId(db, r, rc.clientExpenseId) :
                 rc.expenseId = Some(e.id)
          ELSE rc.expenseId = Null

(* C12: every Receipt with a non-null expenseId references an Expense of the
   same report whose externalId equals the Receipt's clientExpenseId. *)
C12_LinkedReceiptMatches ==
  \A rc \in db.receipts :
    rc.expenseId # Null =>
      \E e \in ExpenseRows(db, rc.reportId) :
        e.id = rc.expenseId[1] /\ e.externalId = Some(rc.clientExpenseId)

(* No receipt is ever linked: a Receipt row cannot precede its Report row, and
   the only statement that sets expenseId runs in the transaction that creates
   the Report row. *)
C12_NoReceiptLinked == \A rc \in db.receipts : rc.expenseId = Null

----------------------------------------------------------------------------
(* Upload limits *)

Oversized(file) == file.size > 10 * 1024 * 1024
AllowListed(file) ==
  \/ file.mimetype = <<"application", "/", "pdf">>
  \/ Len(file.mimetype) >= 2 /\ file.mimetype[1] = "image" /\ file.mimetype[2] = "/"

HasBadFile(req) ==
  \E i \in 1..Len(req.files) : Oversized(req.files[i]) \/ ~AllowListed(req.files[i])

BadFileUploads == {req \in ReceiptUploads : HasBadFile(req)}

UploadRejected(req) == resp'.reportId = "-" /\ Upload(req, MaxReceipts, MaxObjects)

(* C15 as stated: an upload with a file outside the allow-list or larger than
   the maximum is answered 415 or 413, stores no file and creates no Receipt row. *)
C15_Original ==
  [][resp'.op = "upload" =>
       \A req \in BadFileUploads :
         Upload(req, MaxReceipts, MaxObjects) =>
           /\ resp'.code \in {413, 415}
           /\ db' = db
           /\ objects' = objects]_vars

(* C15: an upload with a file outside the allow-list or larger than the maximum
   is rejected as a whole, no file stored and no Receipt row created: with 413
   when one of the first five files is too large; otherwise with 400 when there
   are more than five files or reportId or expenseId is missing; otherwise 415. *)
C15_BadFileRejected ==
  [][resp'.op = "upload" =>
       \A req \in BadFileUploads :
         Upload(req, MaxReceipts, MaxObjects) =>
           /\ db' = db
           /\ objects' = objects
           /\ resp'.code =
                IF \E i \in 1..Len(req.files) : i <= 5 /\ Oversized(req.files[i]) THEN 413
                ELSE IF Len(req.files) > 5 \/ req.reportId = Null \/ req.expenseId = Null
                  THEN 400
                ELSE 415]_vars

(* An upload refused for its file type when the report already holds receipts. *)
C15_Witness ==
  /\ resp.op = "upload" /\ resp.code = 415
  /\ db = prev
  /\ ReceiptRows(db, "r1") # {}
  /\ objects # {}

----------------------------------------------------------------------------
(* Draft Store round trip *)

Retrievable(st, draftId, expenseId) == getStoredReceipts(st, draftId, expenseId, Null)
RetrievableIds(st, draftId, expenseId) ==
  {x.metadata.id : x \in Retrievable(st, draftId, expenseId)}

(* What save must leave retrievable: every file with its bytes and the
   metadata save returned for it. *)
SavedRoundTrip ==
  (resp'.op = "save" /\ resp'.files # <<>>) =>
    /\ Retrievable(draftStore', resp'.draftId, resp'.expenseId) =
         {[metadata |-> resp'.result[i], blob |-> resp'.files[i]] : i \in 1..Len(resp'.files)}
    /\ Cardinality(Retrievable(draftStore', resp'.draftId, resp'.expenseId)) = Len(resp'.files)
    /\ \A i \in 1..Len(resp'.files) :
         /\ resp'.result[i].fileSize = resp'.files[i].size
         /\ resp'.files[i].name # "" => resp'.result[i].fileName = resp'.files[i].name
         /\ resp'.files[i].type # <<>> => resp'.result[i].contentType = resp'.files[i].type

(* delete was called with a subset of the ids stored for the expense *)
DeletesSubset ==
  /\ resp'.op = "delete" /\ resp'.ids # Null
  /\ resp'.ids[1] \subseteq RetrievableIds(draftStore, resp'.draftId, resp'.expenseId)

(* C20 as stated: after save, getBlobs returns every saved file with its bytes
   and metadata; delete with a subset of the receipt ids removes exactly those
   and leaves the others retrievable; clearDraft leaves no retrievable receipt
   for any expense of the draft. *)
C20_Original ==
  [][/\ SavedRoundTrip
     /\ DeletesSubset =>
          Retrievable(draftStore', resp'.draftId, resp'.expenseId) =
            {x \in Retrievable(draftStore, resp'.draftId, resp'.expenseId) :
               x.metadata.id \notin resp'.ids[1]}
     /\ resp'.op = "clear" =>
          \A e \in DraftExpenseIds : Retrievable(draftStore', resp'.draftId, e) = {}]_vars

(* C20: after save, getBlobs returns every saved file with its bytes and
   metadata; delete with a non-empty subset of the receipt ids removes exactly
   those and leaves the others retrievable, and with an empty list of ids it
   removes every receipt of the expense; clearDraft leaves no retrievable
   receipt for the expenses of the draft, except, in the IndexedDB strategy,
   those whose id sorts after '\uffff'. *)
C20_RoundTrip ==
  [][/\ SavedRoundTrip
     /\ DeletesSubset =>
          Retrievable(draftStore', resp'.draftId, resp'.expenseId) =
            IF resp'.ids[1] = {} THEN {}
            ELSE {x \in Retrievable(draftStore, resp'.draftId, resp'.expenseId) :
                    x.metadata.id \notin resp'.ids[1]}
     /\ resp'.op = "clear" =>
          \A e \in DraftExpenseIds :
            IF draftStore.strategy = "indexedDB" /\ ~StringLessEq(e, "uffff")
              THEN Retrievable(draftStore', resp'.draftId, e) =
                     Retrievable(draftStore, resp'.draftId, e)
              ELSE Retrievable(draftStore', resp'.draftId, e) = {}]_vars

(* One of two stored receipts has been deleted and the other is retrievable. *)
C20_Witness ==
  /\ resp.op = "delete" /\ resp.ids # Null /\ resp.ids[1] # {}
  /\ resp.ids[1] \cap RetrievableIds(draftStore, resp.draftId, resp.expenseId) = {}
  /\ Cardinality(Retrievable(draftStore, resp.draftId, resp.expenseId)) = 1
  /\ \E x \in Retrievable(draftStore, resp.draftId, resp.expenseId) : x.blob = FileB

(* C16: in an online finalize attempt, when the upload of the staged receipts
   of an expense has failed, the attempt has sent no report submission and
   sends none later, so the attempt creates no Report row. *)
C16_FailedUploadNoSubmission ==
  \A t \in client.tasks : t.pc = "failed" => t.attempt \notin client.sentBy

(* An attempt was aborted after one of its uploads had succeeded and another
   had failed. *)
C16_Witness ==
  \E t, u \in client.tasks :
    /\ t.attempt = u.attempt /\ t.pc = "failed" /\ u.pc = "done"
    /\ client.run.n # t.attempt
    /\ ~client.submitting

(* A step in which the running finalize call gives up because of a failed
   upload. *)
FinalizeAborted ==
  /\ client.run.pc = "uploading"
  /\ \E i \in OpenUploads(client) :
       TaskOf(client, client.run.n, client.run.queue[i]).pc = "failed"
  /\ client'.run = NoRun
  /\ ~client'.submitting

(* C17 as stated: when an online finalize attempt is aborted because an upload
   failed, the Draft Store holds what it held before the attempt (no receipt
   having been attached meanwhile), the expenses whose uploads succeeded
   included. *)
C17_Original ==
  [][(FinalizeAborted /\ draftStore.issued = client.run.store.issued)
       => draftStore' = client.run.store]_vars

InFlight(t) == t.pc \in {"sent", "replied"}

SubmissionInFlight == client.run.pc \in {"submitSent", "submitReplied"}

(* C18 as stated: network operations of two different finalize attempts for
   the same draft are never in flight at the same time. *)
C18_Original ==
  /\ \A t, u \in client.tasks :
       (InFlight(t) /\ InFlight(u) /\ t.draftId = u.draftId) => t.attempt = u.attempt
  /\ \A t \in client.tasks :
       (InFlight(t) /\ SubmissionInFlight /\ t.reportId = client.run.reportId)
          => t.attempt = client.run.n

Outstanding(t) == t.pc \in {"read", "sent", "replied"}

(* The first half of C19: the submission of an attempt is sent only after
   every upload started by that attempt has completed successfully. *)
C19_OwnUploadsDone ==
  \A t \in client.tasks : t.attempt \in client.sentBy => t.pc = "done"

(* C19 as stated: the submission is sent only after every upload of the
   attempt has completed successfully, and never while an upload of the
   current report is outstanding. *)
C19_Original ==
  /\ C19_OwnUploadsDone
  /\ SubmissionInFlight =>
       \A t \in client.tasks : t.reportId = client.run.reportId => ~Outstanding(t)

(* The ids of everything the strategy in use holds for the expense: records of
   the object store, or the files and the manifest entries of its directory. *)
UnderlyingIds(st, draftId, expenseId) ==
  IF st.strategy = "fileSystem"
    THEN UNION {{f.id : f \in dir.files} \cup {item.id : item \in dir.manifest}
                  : dir \in ExpenseDirectory(st, draftId, expenseId)}
    ELSE {rec.id : rec \in {r \in st.idb : KeyRangeOnly(r, draftId, expenseId)}}

ListedIds(st, draftId, expenseId) ==
  {item.id : item \in {x \in listReceiptMetadataForDraft(st, draftId) : x.expenseId = expenseId}}

(* After the save in resp' the expense holds the saved files and nothing of an
   earlier save, in the store, for getBlobs and for listByDraft. *)
SaveReplaces ==
  LET new == {resp'.result[i].id : i \in 1..Len(resp'.files)}
  IN /\ UnderlyingIds(draftStore', resp'.draftId, resp'.expenseId) = new
     /\ RetrievableIds(draftStore', resp'.draftId, resp'.expenseId) = new
     /\ ListedIds(draftStore', resp'.draftId, resp'.expenseId) \subseteq new
     /\ \A x \in Retrievable(draftStore', resp'.draftId, resp'.expenseId) :
          \E i \in 1..Len(resp'.files) :
            x.metadata.id = resp'.result[i].id /\ x.blob = resp'.files[i]

(* C21 as stated: after any save the receipts stored for the expense are
   exactly the newly saved files. *)
C21_Original ==
  [][resp'.op = "save" => SaveReplaces]_vars

(* C21: after a save of a non-empty list of files the receipts stored for the
   expense are exactly the newly saved files: no receipt of a prior save is
   left in the underlying store, returned by getBlobs or listed by listByDraft,
   in both strategies.  A save of an empty list changes nothing. *)
C21_SaveReplacesPriorGeneration ==
  [][resp'.op = "save" =>
       IF resp'.files = <<>> THEN draftStore' = draftStore ELSE SaveReplaces]_vars

(* A save made after two receipts had been stored: the expense holds the new
   receipt only. *)
C21_Witness ==
  /\ resp.op = "save" /\ Len(resp.files) = 1
  /\ resp.result[1].id = 3
  /\ UnderlyingIds(draftStore, resp.draftId, resp.expenseId) = {3}

(* C29 as stated: delete(draftId, expenseId, ids) leaves the receipts of every
   other draft and every other expense retrievable and unchanged, whatever ids
   contains. *)
C29_Original ==
  [][resp'.op = "delete" =>
       \A d \in ReportIds, e \in DraftExpenseIds :
         (d # resp'.draftId \/ e # resp'.expenseId) =>
           Retrievable(draftStore', d, e) = Retrievable(draftStore, d, e)]_vars

(* C22 as stated: given the same calls, the IndexedDB strategy and the
   file-tree strategy return the same results. *)
C22_Original ==
  resp.op \in {"save", "get", "list", "delete", "clear"} => resp.result[1] = resp.result[2]

(* The manifest of every directory lists exactly the files stored in it. *)
ManifestMatchesFiles(st) ==
  \A dir \in st.fs : {item.id : item \in dir.manifest} = {f.id : f \in dir.files}

(* C23 as stated: in the file-tree strategy, after a call was cut short and
   the page loaded again, listByDraft reports for each expense exactly the ids
   whose blobs getBlobs retrieves; the manifest lists no removed blob and no
   blob is stored without a manifest entry. *)
C23_Original ==
  (resp.op # "none" /\ resp.pc = "crashed") =>
    /\ \A e \in CrashExpenseIds :
         ListedIds(draftStore, resp.draftId, e) = RetrievableIds(draftStore, resp.draftId, e)
    /\ ManifestMatchesFiles(draftStore)

(* C28 as stated: the objects an upload request wrote to the storage provider
   are exactly those referenced by the Receipt rows it created, however the
   request ended. *)
C28_Original ==
  [][resp'.op = "upload" =>
       {o.key : o \in objects' \ objects} = {rc.storageKey : rc \in db'.receipts \ db.receipts}]_vars

(* C26 as stated: a submission is answered 409 only if a Report row with the
   submitted reportId existed before the request. *)
C26_Original ==
  [][(resp'.op = "submit" /\ resp'.code = 409) => HasReport(db, resp'.reportId)]_vars

(* C27 as stated: across the finalize attempts for a draft, each staged draft
   receipt produces at most one Receipt row on the server. *)
C27_Original ==
  \A a, b \in client.rowsOf : a.staged = b.staged => a.row = b.row

----------------------------------------------------------------------------
(* The export *)

QueryStart(req) == ParseDate(req.start[1])[1]
QueryEnd(req) == ParseDate(req.end[1])[1]

(* The entries of the employee filter of a query, blanks around them aside;
   a filter without any entry is no filter. *)
FilterEntries(req) ==
  IF req.employees = Null THEN {}
  ELSE {Trim(Split(req.employees[1])[i]) : i \in 1..Len(Split(req.employees[1]))} \ {<<>>}

InFilter(rep, req) ==
  FilterEntries(req) = {} \/ \E entry \in FilterEntries(req) : ToLowerCase(entry) = rep.employeeEmail

Eligible(d, req) ==
  {rep \in d.reports :
     /\ rep.status = "FINANCE_APPROVED"
     /\ QueryStart(req) <= rep.finalizedAt /\ rep.finalizedAt <= QueryEnd(req)
     /\ InFilter(rep, req)}

(* C24: an export that is answered holds a line for exactly the reports that
   are FINANCE_APPROVED when it is made, whose finalizedAt is not before the
   start and not after the end of the query, and whose employeeEmail is an entry
   of the filter if there is one (letter case aside); every line it holds is
   that of a FINANCE_APPROVED report. *)
C24_ExportedReports ==
  (resp.op = "export" /\ resp.code = 200) =>
    /\ {line.reportId : line \in resp.reportLines}
         = {rep.reportId : rep \in Eligible(db, resp.request)}
    /\ \A line \in resp.reportLines :
         /\ line.status = "FINANCE_APPROVED"
         /\ StatusOf(db, line.reportId) = "FINANCE_APPROVED"

(* An export with a filter holds the report finalized on the last instant of
   its range and leaves out one in the range that is not FINANCE_APPROVED. *)
C24_Witness ==
  /\ resp.op = "export" /\ resp.code = 200
  /\ resp.request.employees # Null
  /\ \E line \in resp.reportLines : line.finalizedAt = QueryEnd(resp.request)
  /\ \E rep \in db.reports :
       /\ rep.status \in {"SUBMITTED", "MANAGER_APPROVED", "REJECTED"}
       /\ QueryStart(resp.request) <= rep.finalizedAt
       /\ rep.finalizedAt <= QueryEnd(resp.request)
       /\ InFilter(rep, resp.request)

ExportedReceipts(d, req) == UNION {ReceiptRows(d, rep.reportId) : rep \in Eligible(d, req)}

(* C25: an export during which the provider issues no URL for one receipt of
   an exported report is answered all the same: it holds the lines of every
   eligible report, expense and receipt, and the line of that receipt carries
   the stored URL or nothing. *)
C25_Original ==
  (/\ resp.op = "export"
   /\ resp.request.urlFault # Null
   /\ \E rc \in ExportedReceipts(db, resp.request) : rc.id = resp.request.urlFault[1].receipt) =>
    /\ resp.code = 200
    /\ {line.reportId : line \in resp.reportLines}
         = {rep.reportId : rep \in Eligible(db, resp.request)}
    /\ {line.receiptId : line \in resp.receiptLines}
         = {rc.id : rc \in ExportedReceipts(db, resp.request)}
    /\ \A line \in resp.receiptLines : \A rc \in ExportedReceipts(db, resp.request) :
         (line.receiptId = rc.id /\ rc.id = resp.request.urlFault[1].receipt) =>
           line.downloadUrl = (IF rc.storageUrl = Null THEN <<>> ELSE rc.storageUrl[1])

(* The same when the provider returns nothing instead of throwing. *)
C25_NothingReturned ==
  (/\ resp.op = "export"
   /\ resp.request.urlFault # Null
   /\ resp.request.urlFault[1].how = "nothing"
   /\ \E rc \in ExportedReceipts(db, resp.request) : rc.id = resp.request.urlFault[1].receipt) =>
    /\ resp.code = 200
    /\ {line.receiptId : line \in resp.receiptLines}
         = {rc.id : rc \in ExportedReceipts(db, resp.request)}
    /\ \A line \in resp.receiptLines :
         line.receiptId = resp.request.urlFault[1].receipt =>
           \E rc \in ExportedReceipts(db, resp.request) :
             rc.id = line.receiptId /\ rc.storageUrl # Null /\ line.downloadUrl = rc.storageUrl[1]

----------------------------------------------------------------------------
(* The guard of the finalize operation *)

(* C30: whenever the guard of the finalize operation is held, it is released
   later, whatever path the call takes, given that reads of the Draft Store
   complete, requests settle and their answers are handled. *)
C30_GuardReleased == client.submitting ~> ~client.submitting

(* Online, the guard is free after a call that failed and a later one that
   finalized the draft. *)
C30_Witness ==
  /\ ~client.offlineOnly
  /\ ~client.submitting
  /\ client.attempts = MaxLiveAttempts
  /\ client.history # {}

====
